---- MODULE Spec2Model ----
(***************************************************************************)
(* Talent-project matching engine of HR_Talent: the record store (db.py),  *)
(* the similarity index (vector_store.py), the skill-gap analyzer          *)
(* (utils.py), the match orchestrator (match.py) and the request handlers  *)
(* that write to them (main.py).                                           *)
(*                                                                         *)
(* Numbers.  Python floats with two decimals (similarity_score,            *)
(* match_percentage, overall_score) are integers counting hundredths:      *)
(* 75.5 is 7550.  A component of an embedding, int(hex_pair, 16) / 255.0,  *)
(* is the integer numerator int(hex_pair, 16) over the fixed denominator   *)
(* EmbeddingDivisor.                                                       *)
(***************************************************************************)
EXTENDS Integers, Sequences, FiniteSets, TLC

VARIABLES
    employees,              \* table employees: row id -> Employee
    projects,               \* table projects: row id -> Project
    match_history,          \* table match_history: sequence of rows
    employees_collection,   \* Chroma collection "employees": sequence of entries
    projects_collection,    \* Chroma collection "projects": sequence of entries
    now,                    \* the value of CURRENT_TIMESTAMP
    response,               \* what the last request returned to its caller
    last_upsert,            \* history: pair -> arguments and time of its last add_match_history
    embedding_writers,      \* history: the components that wrote an embedding
    match_generated,        \* history: generate_embedding calls of match requests per entity
    history_calls,          \* add_match_history calls in flight (SpecHistory)
    index_calls,            \* update_*_embedding calls in flight (SpecIndex)
    courses,                \* table courses: row id -> Course
    update_calls,           \* update_project requests in flight (SpecUpdate)
    requests                \* the number of requests the handlers have taken

vars == <<employees, projects, match_history, employees_collection,
          projects_collection, now, response, last_upsert,
          embedding_writers, match_generated, history_calls, index_calls,
          courses, update_calls, requests>>

---------------------------------------------------------------------------
(* Bounds of the model *)

MaxEmployees == 1
MaxProjects == 2
MaxTopK == 2
MaxClock == 1
MaxCallers == 2
MaxIndexId == 1
MaxIndexCalls == 2
MaxQueryEntries == 2
MaxCandidateSkills == 2
MaxRequiredSkills == 3
MaxCategorizedSkills == 3
MaxMissingSkills == 2
MaxCourses == 4
MaxGrowthProjects == 4
MaxCategoryCount == 4
MaxStoredCourses == 1
MaxRequests == 4

(* Program constants *)

EmbeddingDim == 384
EmbeddingDivisor == 255

---------------------------------------------------------------------------
(* Strings.  TLC concatenates strings but cannot index them, so the        *)
(* operations that look inside a string work on its characters.            *)

Chars(s) ==
    CASE s = "go" -> <<"g", "o">>
      [] s = "sql" -> <<"s", "q", "l">>
      [] s = "java" -> <<"j", "a", "v", "a">>
      [] s = "JavaScript" -> <<"J", "a", "v", "a", "S", "c", "r", "i", "p", "t">>
      [] s = "" -> <<>>
      [] s = "Go" -> <<"G", "o">>
      [] s = "python" -> <<"p", "y", "t", "h", "o", "n">>
      [] s = "react" -> <<"r", "e", "a", "c", "t">>
      [] s = "django" -> <<"d", "j", "a", "n", "g", "o">>
      [] s = "docker" -> <<"d", "o", "c", "k", "e", "r">>
      [] s = "Python" -> <<"P", "y", "t", "h", "o", "n">>
      [] s = "React" -> <<"R", "e", "a", "c", "t">>
      [] s = "aws" -> <<"a", "w", "s">>
      [] s = "swift" -> <<"s", "w", "i", "f", "t">>
      [] s = "nlp" -> <<"n", "l", "p">>
      [] s = "excel" -> <<"e", "x", "c", "e", "l">>
      [] s = "mongodb" -> <<"m", "o", "n", "g", "o", "d", "b">>
      [] s = "javascript" -> <<"j", "a", "v", "a", "s", "c", "r", "i", "p", "t">>
      [] s = "typescript" -> <<"t", "y", "p", "e", "s", "c", "r", "i", "p", "t">>
      [] s = "c++" -> <<"c", "+", "+">>
      [] s = "c#" -> <<"c", "#">>
      [] s = "rust" -> <<"r", "u", "s", "t">>
      [] s = "angular" -> <<"a", "n", "g", "u", "l", "a", "r">>
      [] s = "vue" -> <<"v", "u", "e">>
      [] s = "html" -> <<"h", "t", "m", "l">>
      [] s = "css" -> <<"c", "s", "s">>
      [] s = "node.js" -> <<"n", "o", "d", "e", ".", "j", "s">>
      [] s = "express" -> <<"e", "x", "p", "r", "e", "s", "s">>
      [] s = "r" -> <<"r">>
      [] s = "pandas" -> <<"p", "a", "n", "d", "a", "s">>
      [] s = "numpy" -> <<"n", "u", "m", "p", "y">>
      [] s = "tensorflow" -> <<"t", "e", "n", "s", "o", "r", "f", "l", "o", "w">>
      [] s = "pytorch" -> <<"p", "y", "t", "o", "r", "c", "h">>
      [] s = "scikit-learn" -> <<"s", "c", "i", "k", "i", "t", "-", "l", "e", "a", "r", "n">>
      [] s = "azure" -> <<"a", "z", "u", "r", "e">>
      [] s = "gcp" -> <<"g", "c", "p">>
      [] s = "kubernetes" -> <<"k", "u", "b", "e", "r", "n", "e", "t", "e", "s">>
      [] s = "terraform" -> <<"t", "e", "r", "r", "a", "f", "o", "r", "m">>
      [] s = "jenkins" -> <<"j", "e", "n", "k", "i", "n", "s">>
      [] s = "mysql" -> <<"m", "y", "s", "q", "l">>
      [] s = "postgresql" -> <<"p", "o", "s", "t", "g", "r", "e", "s", "q", "l">>
      [] s = "redis" -> <<"r", "e", "d", "i", "s">>
      [] s = "elasticsearch" -> <<"e", "l", "a", "s", "t", "i", "c", "s", "e", "a", "r", "c", "h">>
      [] s = "sqlite" -> <<"s", "q", "l", "i", "t", "e">>
      [] s = "kotlin" -> <<"k", "o", "t", "l", "i", "n">>
      [] s = "react native" -> <<"r", "e", "a", "c", "t", " ", "n", "a", "t", "i", "v", "e">>
      [] s = "flutter" -> <<"f", "l", "u", "t", "t", "e", "r">>
      [] s = "ios" -> <<"i", "o", "s">>
      [] s = "android" -> <<"a", "n", "d", "r", "o", "i", "d">>
      [] s = "machine learning" -> <<"m", "a", "c", "h", "i", "n", "e", " ", "l", "e", "a", "r", "n", "i", "n", "g">>
      [] s = "deep learning" -> <<"d", "e", "e", "p", " ", "l", "e", "a", "r", "n", "i", "n", "g">>
      [] s = "computer vision" -> <<"c", "o", "m", "p", "u", "t", "e", "r", " ", "v", "i", "s", "i", "o", "n">>

UpperCase == <<"A","B","C","D","E","F","G","H","I","J","K","L","M",
               "N","O","P","Q","R","S","T","U","V","W","X","Y","Z">>
LowerCase == <<"a","b","c","d","e","f","g","h","i","j","k","l","m",
               "n","o","p","q","r","s","t","u","v","w","x","y","z">>

\* str.lower() on one character
LowerChar(c) ==
    IF \E i \in 1..Len(UpperCase) : UpperCase[i] = c
    THEN LowerCase[CHOOSE i \in 1..Len(UpperCase) : UpperCase[i] = c]
    ELSE c

\* str.lower()
Lower(cs) == [i \in 1..Len(cs) |-> LowerChar(cs[i])]

\* Python's `a in b` on strings
IsSubstring(a, b) ==
    \E i \in 0..(Len(b) - Len(a)) : SubSeq(b, i + 1, i + Len(a)) = a

RECURSIVE Join(_, _)
\* sep.join(items)
Join(sep, items) ==
    IF items = <<>> THEN ""
    ELSE IF Len(items) = 1 THEN items[1]
    ELSE items[1] \o sep \o Join(sep, Tail(items))

\* round(num / den, 0) as Python rounds a float: to nearest, a tie to even
RoundDiv(num, den) ==
    LET q == num \div den
        r == num % den
    IN  IF 2 * r < den THEN q
        ELSE IF 2 * r > den THEN q + 1
        ELSE IF q % 2 = 0 THEN q ELSE q + 1

---------------------------------------------------------------------------
(* Embedding generator (vector_store.py) *)

\* hashlib.md5(text.encode()).hexdigest(): the 32 hex digits of the digest,
\* tabulated for the canonical texts of the modelled entities and the texts
\* of the generate_embedding calls
Md5HexDigest(text) ==
    CASE text = "Ann Skills: go Resume: go dev" ->
         <<"f","3","1","a","5","8","c","6","2","8","7","6","7","3","9","a"
           ,"d","6","e","1","b","0","a","2","2","a","a","2","2","f","8","4">>
    [] text = "Bob Skills: java Resume: java" ->
         <<"6","4","b","6","9","e","a","6","3","6","7","5","4","c","1","9"
           ,"0","c","8","1","f","e","2","f","5","5","8","e","0","5","6","9">>
    [] text = "Api Required Skills: go, sql Description: backend" ->
         <<"5","8","b","f","d","8","e","a","3","a","9","0","e","c","d","c"
           ,"1","1","1","a","d","6","d","8","d","c","8","9","0","5","d","3">>
    [] text = "Web Required Skills: JavaScript Description: frontend" ->
         <<"9","4","6","6","d","9","3","e","4","7","6","0","a","3","a","a"
           ,"a","6","5","0","7","1","6","9","4","5","a","a","9","c","4","4">>
    [] text = "Ops Required Skills:  Description: tbd" ->
         <<"b","9","f","1","b","7","2","8","4","2","2","b","1","8","4","1"
           ,"4","2","4","0","5","d","0","8","e","a","a","a","2","c","f","e">>
    [] text = "" ->
         <<"d","4","1","d","8","c","d","9","8","f","0","0","b","2","0","4"
           ,"e","9","8","0","0","9","9","8","e","c","f","8","4","2","7","e">>
    [] text = "g" ->
         <<"b","2","f","5","f","f","4","7","4","3","6","6","7","1","b","6"
           ,"e","5","3","3","d","8","d","c","3","6","1","4","8","4","5","d">>
    [] text = "Ann Skills: react Resume: react dev" ->
         <<"8","a","e","4","7","0","c","4","6","f","4","0","9","e","6","d"
           ,"4","f","9","7","4","e","b","a","f","f","7","7","e","4","6","d">>

HexDigits == <<"0","1","2","3","4","5","6","7","8","9","a","b","c","d","e","f">>

\* int(hex_pair, 16): the numerator of val = int(hex_pair, 16) / 255.0, a
\* component being kept as its numerator over EmbeddingDivisor
HexPairValue(hi, lo) ==
    LET digit(c) == (CHOOSE i \in 1..Len(HexDigits) : HexDigits[i] = c) - 1
    IN  16 * digit(hi) + digit(lo)

\* a generate_embedding that does not pad
generate_embedding_unpadded(text) ==
    LET text_hash == Md5HexDigest(text)
    IN  [k \in 1..(Len(text_hash) \div 2) |->
            HexPairValue(text_hash[2 * k - 1], text_hash[2 * k])]

\* VectorStore.generate_embedding: one component per pair of hex digits,
\* zero-padded, then cut, to EmbeddingDim components
generate_embedding(text) ==
    LET text_hash == Md5HexDigest(text)
        embedding == [k \in 1..(Len(text_hash) \div 2) |->
                         HexPairValue(text_hash[2 * k - 1], text_hash[2 * k])]
        padded == [k \in 1..(IF Len(embedding) < EmbeddingDim
                             THEN EmbeddingDim ELSE Len(embedding)) |->
                      IF k <= Len(embedding) THEN embedding[k] ELSE 0]
    IN  SubSeq(padded, 1, EmbeddingDim)

---------------------------------------------------------------------------
(* Cosine similarity of the index.  The collections are created with       *)
(* "hnsw:space": "cosine"; find_similar_* turns the distance d of a result *)
(* into round((1 - d) * 100, 2).  The products exceed 32 bits, so they are *)
(* computed on little-endian base-1000 numerals.                           *)

RECURSIVE DotRange(_, _, _, _)
\* the sum of a[k] * b[k] for k in lo..hi, by halves
DotRange(a, b, lo, hi) ==
    IF lo > hi THEN 0
    ELSE IF lo = hi THEN a[lo] * b[lo]
    ELSE LET mid == (lo + hi) \div 2
         IN  DotRange(a, b, lo, mid) + DotRange(a, b, mid + 1, hi)

Dot(a, b) == DotRange(a, b, 1, IF Len(a) < Len(b) THEN Len(a) ELSE Len(b))

RECURSIVE BigOf(_)
BigOf(n) == IF n < 1000 THEN <<n>> ELSE <<n % 1000>> \o BigOf(n \div 1000)

RECURSIVE BigTimesCarry(_, _, _)
BigTimesCarry(x, m, carry) ==
    IF x = <<>> THEN (IF carry = 0 THEN <<>> ELSE BigOf(carry))
    ELSE LET v == Head(x) * m + carry
         IN  <<v % 1000>> \o BigTimesCarry(Tail(x), m, v \div 1000)

BigTimes(x, m) == BigTimesCarry(x, m, 0)

RECURSIVE BigCompare(_, _)
\* -1, 0 or 1 as x is less than, equal to or greater than y
BigCompare(x, y) ==
    IF x = <<>> /\ y = <<>> THEN 0
    ELSE LET hx == IF x = <<>> THEN 0 ELSE Head(x)
             hy == IF y = <<>> THEN 0 ELSE Head(y)
             tx == IF x = <<>> THEN <<>> ELSE Tail(x)
             ty == IF y = <<>> THEN <<>> ELSE Tail(y)
             high == BigCompare(tx, ty)
         IN  IF high # 0 THEN high
             ELSE IF hx < hy THEN -1 ELSE IF hx > hy THEN 1 ELSE 0

RECURSIVE NearestScore(_, _, _, _)
\* the largest r in lo..hi with (2r - 1)^2 * norms <= 20000^2 * dot^2,
\* that is r - 1/2 <= 10000 * dot / sqrt(norms)
NearestScore(dotsq, norms, lo, hi) ==
    IF lo >= hi THEN lo
    ELSE LET mid == (lo + hi + 1) \div 2
             lhs == BigTimes(BigTimes(norms, 2 * mid - 1), 2 * mid - 1)
             rhs == BigTimes(BigTimes(dotsq, 20000), 20000)
         IN  IF BigCompare(lhs, rhs) <= 0
             THEN NearestScore(dotsq, norms, mid, hi)
             ELSE NearestScore(dotsq, norms, lo, mid - 1)

\* round((1 - cosine_distance(a, b)) * 100, 2), in hundredths
similarity_score(a, b) ==
    LET dot == Dot(a, b)
        na == Dot(a, a)
        nb == Dot(b, b)
    IN  IF na = 0 \/ nb = 0 THEN 0
        ELSE NearestScore(BigTimes(BigOf(dot), dot), BigTimes(BigOf(na), nb),
                          0, 10000)

---------------------------------------------------------------------------
(* round(count / total * 100, 2) as Python computes it on IEEE 754         *)
(* doubles: count / total rounded to 53 bits, the product with 100 rounded *)
(* to 53 bits, and that double rounded to two decimals by its exact value. *)
(* The double differs from the exact quotient by less than 10^-11          *)
(* hundredths, so it can only change the result when the exact quotient    *)
(* lies midway between two hundredths; then the doubles are computed, on   *)
(* the numerals of similarity_score.                                       *)

RECURSIVE BigDivMod(_, _)
\* quotient and remainder of the numeral x by d
BigDivMod(x, d) ==
    IF x = <<>> THEN [q |-> <<>>, r |-> 0]
    ELSE LET high == BigDivMod(Tail(x), d)
             v == high.r * 1000 + Head(x)
         IN  [q |-> <<v \div d>> \o high.q, r |-> v % d]

RECURSIVE BigPow2(_)
BigPow2(e) == IF e = 0 THEN <<1>> ELSE BigTimes(BigPow2(e - 1), 2)

RECURSIVE BigPlusOne(_)
BigPlusOne(x) ==
    IF x = <<>> THEN <<1>>
    ELSE IF Head(x) < 999 THEN <<Head(x) + 1>> \o Tail(x)
    ELSE <<0>> \o BigPlusOne(Tail(x))

BigIsOdd(x) == x # <<>> /\ Head(x) % 2 = 1

\* the quotient qr.q of a division by d with remainder qr.r, rounded to
\* nearest, a tie to even
BigRoundQuotient(qr, d) ==
    IF 2 * qr.r < d THEN qr.q
    ELSE IF 2 * qr.r = d /\ ~BigIsOdd(qr.q) THEN qr.q
    ELSE BigPlusOne(qr.q)

\* the quotient of x by d rounded to nearest, a tie to even
BigRoundDiv(x, d) == BigRoundQuotient(BigDivMod(x, d), d)

RECURSIVE QuotientExponent(_, _, _)
\* the least e >= from with count * 2^e >= total * 2^52
QuotientExponent(count, total, from) ==
    IF BigCompare(BigTimes(BigPow2(from), count),
                  BigTimes(BigPow2(52), total)) >= 0
    THEN from
    ELSE QuotientExponent(count, total, from + 1)

RECURSIVE ProductShift(_, _)
\* the least s >= from with product < 2^(53 + s)
ProductShift(product, from) ==
    IF BigCompare(product, BigPow2(53 + from)) < 0 THEN from
    ELSE ProductShift(product, from + 1)

\* the product rounded to 53 bits: the double mantissa / 2^exponent
ProductDouble(product, e, s) ==
    [mantissa |-> BigRoundDiv(product, 2^s), exponent |-> e - s]

\* the double quotient * 100 of the 53-bit quotient / 2^e
TimesHundred(product, e) == ProductDouble(product, e, ProductShift(product, 0))

\* the double count / total, a 53-bit numeral over 2^e, times 100
QuotientDouble(count, total, e) ==
    TimesHundred(BigTimes(BigRoundDiv(BigTimes(BigPow2(e), count), total),
                          100), e)

\* the double count / total * 100 for 0 < count < total, as the pair of a
\* 53-bit numeral and a binary exponent: the double is mantissa / 2^exponent
PercentDouble(count, total) ==
    QuotientDouble(count, total, QuotientExponent(count, total, 0))

\* -1, 0 or 1 as the double lies below, on or above floor + 1/2 hundredths
TieSide(double, floor) ==
    BigCompare(BigTimes(double.mantissa, 200),
               BigTimes(BigPow2(double.exponent), 2 * floor + 1))

\* the hundredths a double at floor + 1/2 hundredths is rounded to
RoundTie(side, floor) ==
    IF side < 0 \/ (side = 0 /\ floor % 2 = 0) THEN floor ELSE floor + 1

\* round(count / total * 100, 2), in hundredths
RoundPercent(count, total) ==
    IF 2 * ((count * 10000) % total) # total
    THEN RoundDiv(count * 10000, total)
    ELSE RoundTie(TieSide(PercentDouble(count, total),
                          (count * 10000) \div total),
                  (count * 10000) \div total)

---------------------------------------------------------------------------
(* Skill gap analyzer (utils.py) and score combiner (match.py) *)

\* a test that takes a required skill as satisfied only when the employee
\* lists it letter for letter
SkillListed(employee_skills, required_skill) ==
    \E i \in 1..Len(employee_skills) : employee_skills[i] = required_skill

\* the test of find_skill_gaps: some employee skill contains the required
\* skill or is contained in it, both lower-cased
SkillSatisfied(employee_skills, required_skill) ==
    LET required_lower == Lower(Chars(required_skill))
    IN  \E i \in 1..Len(employee_skills) :
            LET emp_skill == Lower(Chars(employee_skills[i]))
            IN  IsSubstring(required_lower, emp_skill)
                \/ IsSubstring(emp_skill, required_lower)

\* a find_skill_gaps whose matched_skills are the required skills the
\* employee lists letter for letter
find_skill_gaps_listed(employee_skills, required_skills) ==
    LET IsMissing(skill) == ~SkillSatisfied(employee_skills, skill)
        missing_skills == SelectSeq(required_skills, IsMissing)
        IsListed(skill) == SkillListed(employee_skills, skill)
    IN  [missing_skills |-> missing_skills,
         matched_skills |-> SelectSeq(required_skills, IsListed),
         match_percentage |->
             IF required_skills # <<>>
             THEN RoundPercent(Len(required_skills) - Len(missing_skills),
                               Len(required_skills))
             ELSE 0]

\* a find_skill_gaps that takes nothing required as everything matched
find_skill_gaps_full(employee_skills, required_skills) ==
    LET IsMissing(skill) == ~SkillSatisfied(employee_skills, skill)
        missing_skills == SelectSeq(required_skills, IsMissing)
        NotInMissing(skill) ==
            ~\E j \in 1..Len(missing_skills) : missing_skills[j] = skill
    IN  [missing_skills |-> missing_skills,
         matched_skills |-> SelectSeq(required_skills, NotInMissing),
         match_percentage |->
             IF required_skills # <<>>
             THEN RoundPercent(Len(required_skills) - Len(missing_skills),
                               Len(required_skills))
             ELSE 10000]

\* a find_skill_gaps that cuts the percentage off after two decimals
find_skill_gaps_cut(employee_skills, required_skills) ==
    LET IsMissing(skill) == ~SkillSatisfied(employee_skills, skill)
        missing_skills == SelectSeq(required_skills, IsMissing)
        NotInMissing(skill) ==
            ~\E j \in 1..Len(missing_skills) : missing_skills[j] = skill
    IN  [missing_skills |-> missing_skills,
         matched_skills |-> SelectSeq(required_skills, NotInMissing),
         match_percentage |->
             IF required_skills # <<>>
             THEN ((Len(required_skills) - Len(missing_skills)) * 10000)
                      \div Len(required_skills)
             ELSE 0]

\* SkillAnalyzer.find_skill_gaps
find_skill_gaps(employee_skills, required_skills) ==
    LET IsMissing(skill) == ~SkillSatisfied(employee_skills, skill)
        missing_skills == SelectSeq(required_skills, IsMissing)
        NotInMissing(skill) ==
            ~\E j \in 1..Len(missing_skills) : missing_skills[j] = skill
    IN  [missing_skills |-> missing_skills,
         matched_skills |-> SelectSeq(required_skills, NotInMissing),
         match_percentage |->
             IF required_skills # <<>>
             THEN RoundPercent(Len(required_skills) - Len(missing_skills),
                               Len(required_skills))
             ELSE 0]

\* SkillAnalyzer.skill_categories, in the order of the dict
skill_categories ==
    << [category |-> "programming",
          keywords |-> <<"python", "java", "javascript", "typescript", "c++", "c#", "go", "rust">>],
       [category |-> "web_development",
          keywords |-> <<"react", "angular", "vue", "html", "css", "node.js", "express">>],
       [category |-> "data_science",
          keywords |-> <<"python", "r", "sql", "pandas", "numpy", "tensorflow", "pytorch", "scikit-learn">>],
       [category |-> "cloud_devops",
          keywords |-> <<"aws", "azure", "gcp", "docker", "kubernetes", "terraform", "jenkins">>],
       [category |-> "databases",
          keywords |-> <<"mysql", "postgresql", "mongodb", "redis", "elasticsearch", "sqlite">>],
       [category |-> "mobile",
          keywords |-> <<"swift", "kotlin", "react native", "flutter", "ios", "android">>],
       [category |-> "ai_ml",
          keywords |-> <<"machine learning", "deep learning", "nlp", "computer vision", "tensorflow", "pytorch">>] >>

CategoryNames == { skill_categories[c].category : c \in 1..Len(skill_categories) }

\* any(cat_skill in skill_lower for cat_skill in category_skills)
HasCategoryKeyword(skill, c) ==
    \E k \in 1..Len(skill_categories[c].keywords) :
        IsSubstring(Chars(skill_categories[c].keywords[k]), Lower(Chars(skill)))

\* the bucket the loop over the categories puts a skill in: that of the
\* first category with a keyword in the skill, "other" when there is none
BucketOf(skill) ==
    IF \E c \in 1..Len(skill_categories) : HasCategoryKeyword(skill, c)
    THEN skill_categories[
             CHOOSE c \in 1..Len(skill_categories) :
                 /\ HasCategoryKeyword(skill, c)
                 /\ \A b \in 1..(c - 1) : ~HasCategoryKeyword(skill, b)].category
    ELSE "other"

\* a categorize_skills that puts a skill in the bucket of every category
\* with a keyword in it
categorize_skills_every(skills) ==
    [bucket \in CategoryNames \cup {"other"} |->
        SelectSeq(skills,
                  LAMBDA skill :
                      IF bucket = "other" THEN BucketOf(skill) = "other"
                      ELSE \E c \in 1..Len(skill_categories) :
                              /\ skill_categories[c].category = bucket
                              /\ HasCategoryKeyword(skill, c))]

\* SkillAnalyzer.categorize_skills
categorize_skills(skills) ==
    [bucket \in CategoryNames \cup {"other"} |->
        SelectSeq(skills, LAMBDA skill : BucketOf(skill) = bucket)]

\* the relevance score recommend_courses gives a course: the number of
\* missing skills that contain a tag of the course or are contained in one,
\* both lower-cased
relevance_score(course, missing_skills) ==
    Cardinality({ i \in 1..Len(missing_skills) :
                    SkillSatisfied(course.skill_tags, missing_skills[i]) })

\* {**course, 'relevance_score': ..., 'relevance_percentage': ...}
Recommendation(course, missing_skills) ==
    [id |-> course.id, title |-> course.title,
     skill_tags |-> course.skill_tags, provider |-> course.provider,
     url |-> course.url, description |-> course.description,
     relevance_score |-> relevance_score(course, missing_skills),
     relevance_percentage |->
         RoundPercent(relevance_score(course, missing_skills),
                      Len(missing_skills))]

RECURSIVE scored_courses(_, _)
\* the loop of recommend_courses: the courses of relevance above 0, in the
\* order of the catalog
scored_courses(missing_skills, available_courses) ==
    IF available_courses = <<>> THEN <<>>
    ELSE LET course == Head(available_courses)
             rest == scored_courses(missing_skills, Tail(available_courses))
         IN  IF relevance_score(course, missing_skills) > 0
             THEN <<Recommendation(course, missing_skills)>> \o rest
             ELSE rest

RECURSIVE sort_by_relevance_score(_)
\* recommendations.sort(key=relevance_score, reverse=True): descending, and
\* stable
sort_by_relevance_score(recommendations) ==
    IF Len(recommendations) <= 1 THEN recommendations
    ELSE LET sorted == sort_by_relevance_score(
                           SubSeq(recommendations, 1, Len(recommendations) - 1))
             r == recommendations[Len(recommendations)]
             k == Cardinality({i \in 1..Len(sorted) :
                                 sorted[i].relevance_score >= r.relevance_score})
         IN  SubSeq(sorted, 1, k) \o <<r>> \o SubSeq(sorted, k + 1, Len(sorted))

\* recommendations[:3]
FirstThree(seq) == SubSeq(seq, 1, IF Len(seq) < 3 THEN Len(seq) ELSE 3)

\* a recommend_courses that cuts the list without sorting it
recommend_courses_unsorted(missing_skills, available_courses) ==
    FirstThree(scored_courses(missing_skills, available_courses))

\* a recommend_courses that keeps the courses of relevance 0, with
\* percentage 0 when there is no missing skill
recommend_courses_all(missing_skills, available_courses) ==
    FirstThree(sort_by_relevance_score(
        [i \in 1..Len(available_courses) |->
            LET course == available_courses[i]
            IN  [id |-> course.id, title |-> course.title,
                 skill_tags |-> course.skill_tags,
                 provider |-> course.provider, url |-> course.url,
                 description |-> course.description,
                 relevance_score |-> relevance_score(course, missing_skills),
                 relevance_percentage |->
                     IF missing_skills = <<>> THEN 0
                     ELSE RoundPercent(
                              relevance_score(course, missing_skills),
                              Len(missing_skills))]]))

\* SkillAnalyzer.recommend_courses
recommend_courses(missing_skills, available_courses) ==
    FirstThree(sort_by_relevance_score(
        scored_courses(missing_skills, available_courses)))

RECURSIVE growth_projects(_, _, _)
\* the loop of _find_next_level_projects over all_projects[project_id..]:
\* the projects of 40 <= match_percentage <= 70, in the order of the table
growth_projects(current_skills, all_projects, project_id) ==
    IF project_id > Len(all_projects) THEN <<>>
    ELSE LET project == all_projects[project_id]
             skill_gap_analysis ==
                 find_skill_gaps(current_skills, project.required_skills)
             rest == growth_projects(current_skills, all_projects,
                                     project_id + 1)
         IN  IF /\ 4000 <= skill_gap_analysis.match_percentage
                /\ skill_gap_analysis.match_percentage <= 7000
             THEN <<[project_id |-> project_id,
                     title |-> project.title,
                     description |-> project.description,
                     skill_match_percentage |->
                         skill_gap_analysis.match_percentage,
                     missing_skills |-> skill_gap_analysis.missing_skills]>>
                  \o rest
             ELSE rest

RECURSIVE sort_by_skill_match_percentage(_)
\* growth_projects.sort(key=skill_match_percentage): ascending, and stable
sort_by_skill_match_percentage(growth) ==
    IF Len(growth) <= 1 THEN growth
    ELSE LET sorted == sort_by_skill_match_percentage(
                           SubSeq(growth, 1, Len(growth) - 1))
             g == growth[Len(growth)]
             k == Cardinality({i \in 1..Len(sorted) :
                                 sorted[i].skill_match_percentage
                                   <= g.skill_match_percentage})
         IN  SubSeq(sorted, 1, k) \o <<g>> \o SubSeq(sorted, k + 1, Len(sorted))

\* a _find_next_level_projects that cuts the list without sorting it
find_next_level_projects_unsorted(current_skills, all_projects) ==
    FirstThree(growth_projects(current_skills, all_projects, 1))

\* TalentMatcher._find_next_level_projects, all_projects being
\* db.get_all_projects()
find_next_level_projects(current_skills, all_projects) ==
    FirstThree(sort_by_skill_match_percentage(
        growth_projects(current_skills, all_projects, 1)))

\* the keys of the dict categorize_skills returns, in its order
CategoryOrder ==
    [c \in 1..Len(skill_categories) |-> skill_categories[c].category]
    \o <<"other">>

\* sorted(category_counts.items(), key=count, reverse=True)[0][0]: the
\* sort is stable, so of the categories of the highest count the first in
\* the order of the dict
top_category(skill_categories_of) ==
    LET count(c) == Len(skill_categories_of[CategoryOrder[c]])
        first == CHOOSE c \in 1..Len(CategoryOrder) :
                    /\ \A b \in 1..Len(CategoryOrder) : count(b) <= count(c)
                    /\ \A b \in 1..(c - 1) : count(b) < count(c)
    IN  CategoryOrder[first]

\* TalentMatcher._suggest_career_trajectory
suggest_career_trajectory(skill_categories_of) ==
    LET count(category) == Len(skill_categories_of[category])
        trajectories ==
            (IF top_category(skill_categories_of) = "programming"
                /\ count("programming") > 3
             THEN <<"Software Engineer → Senior Software Engineer → Tech Lead">>
             ELSE <<>>)
            \o (IF count("data_science") > 2
                THEN <<"Data Analyst → Data Scientist → ML Engineer">>
                ELSE <<>>)
            \o (IF count("web_development") > 2
                THEN <<"Frontend Developer → Full-stack Developer → Solutions Architect">>
                ELSE <<>>)
            \o (IF count("cloud_devops") > 2
                THEN <<"DevOps Engineer → Cloud Architect → Platform Engineer">>
                ELSE <<>>)
    IN  IF trajectories = <<>>
        THEN <<"General Developer → Specialized Developer → Technical Lead">>
        ELSE trajectories

\* a _calculate_overall_score that weighs the two scores equally
calculate_overall_score_even(similarity, skill_match_percentage) ==
    RoundDiv(5 * similarity + 5 * skill_match_percentage, 10)

\* TalentMatcher._calculate_overall_score:
\* round(0.6 * similarity_score + 0.4 * skill_match_percentage, 2)
calculate_overall_score(similarity, skill_match_percentage) ==
    RoundDiv(6 * similarity + 4 * skill_match_percentage, 10)

---------------------------------------------------------------------------
(* Requests of the model *)

\* ResumeUploadRequest bodies
UploadRequests ==
    { [name |-> "Ann", resume_text |-> "go dev", preferences |-> <<>>],
      [name |-> "Bob", resume_text |-> "java", preferences |-> <<>>] }

\* ProjectRequest bodies
ProjectRequests ==
    { [title |-> "Api", required_skills |-> <<"go", "sql">>,
       team_size |-> 2, description |-> "backend"],
      [title |-> "Web", required_skills |-> <<"JavaScript">>,
       team_size |-> 3, description |-> "frontend"] }

\* ResumeParser.extract_skills, tabulated for the resumes of UploadRequests
extract_skills(resume_text) ==
    CASE resume_text = "go dev" -> <<"go">>
      [] resume_text = "java" -> <<"java">>

\* the ids a request may name: the rows that can exist and one that cannot
EmployeeIds == 1..(MaxEmployees + 1)
ProjectIds == 1..(MaxProjects + 1)
TopKs == 0..MaxTopK

\* embedding_vector IS NULL (None in Python)
NullEmbedding == <<>>

\* the canonical text of an employee and of a project
EmployeeText(name, skills, resume_text) ==
    name \o " Skills: " \o Join(", ", skills) \o " Resume: " \o resume_text

ProjectText(title, required_skills, description) ==
    title \o " Required Skills: " \o Join(", ", required_skills)
          \o " Description: " \o description

\* the embeddings the handlers generate for the request bodies
RequestEmbeddings ==
    { generate_embedding(EmployeeText(request.name,
                                      extract_skills(request.resume_text),
                                      request.resume_text)) :
        request \in UploadRequests }
    \cup
    { generate_embedding(ProjectText(request.title, request.required_skills,
                                     request.description)) :
        request \in ProjectRequests }

---------------------------------------------------------------------------
(* Record store (db.py).  AUTOINCREMENT ids of a table nothing is deleted  *)
(* from are 1, 2, ...: a row's id is its position.                         *)

\* DatabaseManager.add_employee; the new id is Len(rows) + 1
add_employee(rows, employee) ==
    Append(rows, [id |-> Len(rows) + 1,
                  name |-> employee.name,
                  skills |-> employee.skills,
                  preferences |-> employee.preferences,
                  resume_text |-> employee.resume_text,
                  embedding_vector |-> employee.embedding_vector])

\* DatabaseManager.add_project; the new id is Len(rows) + 1
add_project(rows, project) ==
    Append(rows, [id |-> Len(rows) + 1,
                  title |-> project.title,
                  required_skills |-> project.required_skills,
                  team_size |-> project.team_size,
                  description |-> project.description,
                  embedding_vector |-> project.embedding_vector])

\* DatabaseManager.add_course; the new id is Len(rows) + 1
add_course(rows, course) ==
    Append(rows, [id |-> Len(rows) + 1, title |-> course.title,
                  skill_tags |-> course.skill_tags,
                  provider |-> course.provider, url |-> course.url,
                  description |-> course.description])

\* DatabaseManager.get_employee / get_project: whether a row is found
HasRow(rows, id) == id \in 1..Len(rows)

\* DatabaseManager.update_employee_embedding / update_project_embedding:
\* UPDATE ... SET embedding_vector = ? WHERE id = ?
db_update_embedding(rows, id, embedding) ==
    [i \in 1..Len(rows) |->
        IF rows[i].id = id
        THEN [rows[i] EXCEPT !.embedding_vector = embedding]
        ELSE rows[i]]

\* DatabaseManager.update_project: every column but the embedding
db_update_project(rows, project_id, project) ==
    [i \in 1..Len(rows) |->
        IF rows[i].id = project_id
        THEN [rows[i] EXCEPT !.title = project.title,
                             !.required_skills = project.required_skills,
                             !.team_size = project.team_size,
                             !.description = project.description]
        ELSE rows[i]]

\* the rows of match_history for one (employee_id, project_id)
PairRows(rows, employee_id, project_id) ==
    SelectSeq(rows, LAMBDA r : r.employee_id = employee_id
                               /\ r.project_id = project_id)

\* add_match_history, SELECT id ... WHERE employee_id = ? AND project_id = ?
\* with fetchone(): is there a row for the pair
select_existing_match(rows, employee_id, project_id) ==
    PairRows(rows, employee_id, project_id) # <<>>

\* add_match_history, the SELECT after fetchone(): the statement has been
\* stepped to the row after the one fetched; with two or more rows for the
\* pair it is not at its end and the connection keeps its SHARED lock on
\* the file
select_unfinished(rows, employee_id, project_id) ==
    Len(PairRows(rows, employee_id, project_id)) >= 2

\* add_match_history, the write that follows the SELECT: UPDATE every row of
\* the pair when one was found, INSERT a row otherwise
write_match(rows, existing_match, m, timestamp) ==
    IF existing_match
    THEN [i \in 1..Len(rows) |->
            IF rows[i].employee_id = m.employee_id
               /\ rows[i].project_id = m.project_id
            THEN [rows[i] EXCEPT !.match_score = m.match_score,
                                 !.missing_skills = m.missing_skills,
                                 !.matched_skills = m.matched_skills,
                                 !.skill_match_percentage = m.skill_match_percentage,
                                 !.overall_score = m.overall_score,
                                 !.timestamp = timestamp]
            ELSE rows[i]]
    ELSE Append(rows, [id |-> Len(rows) + 1,
                       employee_id |-> m.employee_id,
                       project_id |-> m.project_id,
                       match_score |-> m.match_score,
                       missing_skills |-> m.missing_skills,
                       matched_skills |-> m.matched_skills,
                       skill_match_percentage |-> m.skill_match_percentage,
                       overall_score |-> m.overall_score,
                       timestamp |-> timestamp])

\* an add_match_history that inserts without looking for an existing row
add_match_history_insert(rows, m, timestamp) ==
    write_match(rows, FALSE, m, timestamp)

\* DatabaseManager.add_match_history, run without interruption
add_match_history(rows, m, timestamp) ==
    write_match(rows,
                select_existing_match(rows, m.employee_id, m.project_id),
                m, timestamp)

---------------------------------------------------------------------------
(* Similarity index (vector_store.py on ChromaDB).  An entry is a record   *)
(* [id, embedding, document, metadata]; ids are kept as integers, the      *)
(* str(id) / int(id) of the code being inverse to each other.              *)

\* an add that does not look at the ids the collection holds
CollectionAppend(collection, entry) == Append(collection, entry)

\* Collection.add of one record: Chroma ignores a record whose id the
\* collection already holds
CollectionAdd(collection, entry) ==
    IF \E i \in 1..Len(collection) : collection[i].id = entry.id
    THEN collection
    ELSE Append(collection, entry)

\* Collection.delete(ids=[id]): no error when the id is absent
CollectionDelete(collection, id) ==
    SelectSeq(collection, LAMBDA e : e.id # id)

\* a is at a cosine distance from q no larger than b is:
\* dot(q,a)^2 * |b|^2 >= dot(q,b)^2 * |a|^2 (all components are >= 0)
NotFarther(q, a, b) ==
    LET da == Dot(q, a)
        db == Dot(q, b)
    IN  BigCompare(BigTimes(BigTimes(BigOf(da), da), Dot(b, b)),
                   BigTimes(BigTimes(BigOf(db), db), Dot(a, a))) >= 0

\* NotFarther over the request embeddings, computed once
NotFartherTable ==
    [q \in RequestEmbeddings, a \in RequestEmbeddings,
     b \in RequestEmbeddings |-> NotFarther(q, a, b)]

\* similarity_score over the request embeddings, computed once
SimilarityTable ==
    [a \in RequestEmbeddings, b \in RequestEmbeddings |->
        similarity_score(a, b)]

\* the orders in which a query may rank the entries: by ascending distance,
\* entries at the same distance in any order
QueryOrders(collection, q) ==
    LET n == Len(collection)
    IN  { p \in [1..n -> 1..n] :
            /\ \A i, j \in 1..n : i # j => p[i] # p[j]
            /\ \A i, j \in 1..n :
                 i < j => NotFartherTable[q, collection[p[i]].embedding,
                                             collection[p[j]].embedding] }

\* Collection.query raises for n_results <= 0
QueryRaises(n_results) == n_results <= 0

\* a query that returns the first entries in the order they were added
CollectionScan(collection, q, n_results) ==
    LET n == IF n_results < Len(collection) THEN n_results ELSE Len(collection)
    IN  { SubSeq(collection, 1, n) }

\* Collection.query(query_embeddings=[q], n_results): the possible results
CollectionQuery(collection, q, n_results) ==
    LET n == IF n_results < Len(collection) THEN n_results ELSE Len(collection)
    IN  { [i \in 1..n |-> collection[p[i]]] : p \in QueryOrders(collection, q) }

\* VectorStore.add_employee_embedding
add_employee_embedding(collection, employee_id, name, skills, resume_text, embedding) ==
    CollectionAdd(collection,
        [id |-> employee_id,
         embedding |-> embedding,
         document |-> EmployeeText(name, skills, resume_text),
         metadata |-> [employee_id |-> employee_id, name |-> name,
                       skills |-> skills]])

\* VectorStore.add_project_embedding
add_project_embedding(collection, project_id, title, required_skills, description, embedding) ==
    CollectionAdd(collection,
        [id |-> project_id,
         embedding |-> embedding,
         document |-> ProjectText(title, required_skills, description),
         metadata |-> [project_id |-> project_id, title |-> title,
                       required_skills |-> required_skills]])

\* VectorStore.update_employee_embedding: delete, then add
update_employee_embedding(collection, employee_id, name, skills, resume_text, embedding) ==
    add_employee_embedding(CollectionDelete(collection, employee_id),
                           employee_id, name, skills, resume_text, embedding)

\* VectorStore.update_project_embedding: delete, then add
update_project_embedding(collection, project_id, title, required_skills, description, embedding) ==
    add_project_embedding(CollectionDelete(collection, project_id),
                          project_id, title, required_skills, description, embedding)

\* VectorStore.find_similar_projects: the lists it may return
find_similar_projects(collection, employee_embedding, top_k) ==
    { [i \in 1..Len(results) |->
        [project_id |-> results[i].id,
         title |-> results[i].metadata.title,
         required_skills |-> results[i].metadata.required_skills,
         similarity_score |->
             SimilarityTable[employee_embedding, results[i].embedding],
         document |-> results[i].document]] :
      results \in CollectionQuery(collection, employee_embedding, top_k) }

\* VectorStore.find_similar_employees: the lists it may return
find_similar_employees(collection, project_embedding, top_k) ==
    { [i \in 1..Len(results) |->
        [employee_id |-> results[i].id,
         name |-> results[i].metadata.name,
         skills |-> results[i].metadata.skills,
         similarity_score |->
             SimilarityTable[project_embedding, results[i].embedding],
         document |-> results[i].document]] :
      results \in CollectionQuery(collection, project_embedding, top_k) }

---------------------------------------------------------------------------
(* Match orchestrator (match.py) *)

\* a test that never finds a cached embedding
NeverCached(record) == TRUE

\* `if not employee.embedding_vector` / `if not project.embedding_vector`
NeedsEmbedding(record) == record.embedding_vector = NullEmbedding

\* a loop over similar_projects that keeps a candidate whose project is not
\* among get_all_projects(), with nothing known of the project
enhance_unresolved(employee, all_projects, similar_projects) ==
    [k \in 1..Len(similar_projects) |->
        LET project_data == similar_projects[k]
            found == \E i \in 1..Len(all_projects) :
                        all_projects[i].id = project_data.project_id
            project == IF found
                       THEN all_projects[CHOOSE i \in 1..Len(all_projects) :
                                all_projects[i].id = project_data.project_id]
                       ELSE [title |-> project_data.title, description |-> "",
                             team_size |-> 0,
                             required_skills |-> project_data.required_skills]
            gaps == find_skill_gaps(employee.skills, project.required_skills)
        IN  [project_id |-> project_data.project_id,
             title |-> project.title,
             description |-> project.description,
             team_size |-> project.team_size,
             required_skills |-> project.required_skills,
             similarity_score |-> project_data.similarity_score,
             skill_match_percentage |-> gaps.match_percentage,
             matched_skills |-> gaps.matched_skills,
             missing_skills |-> gaps.missing_skills,
             overall_score |->
                 calculate_overall_score(project_data.similarity_score,
                                         gaps.match_percentage)]]

RECURSIVE enhance_projects(_, _, _)
\* match_employee_to_projects, the loop over similar_projects: a candidate
\* whose project is not among get_all_projects() is skipped
enhance_projects(employee, all_projects, similar_projects) ==
    IF similar_projects = <<>> THEN <<>>
    ELSE LET project_data == Head(similar_projects)
             project_id == project_data.project_id
             rest == enhance_projects(employee, all_projects,
                                      Tail(similar_projects))
         IN  IF \E i \in 1..Len(all_projects) : all_projects[i].id = project_id
             THEN LET project == all_projects[CHOOSE i \in 1..Len(all_projects) :
                                                all_projects[i].id = project_id]
                      gaps == find_skill_gaps(employee.skills,
                                              project.required_skills)
                  IN  << [project_id |-> project_id,
                          title |-> project.title,
                          description |-> project.description,
                          team_size |-> project.team_size,
                          required_skills |-> project.required_skills,
                          similarity_score |-> project_data.similarity_score,
                          skill_match_percentage |-> gaps.match_percentage,
                          matched_skills |-> gaps.matched_skills,
                          missing_skills |-> gaps.missing_skills,
                          overall_score |->
                              calculate_overall_score(
                                  project_data.similarity_score,
                                  gaps.match_percentage)] >> \o rest
             ELSE rest

RECURSIVE enhance_employees(_, _, _)
\* match_project_to_employees, the loop over similar_employees: a candidate
\* get_employee() does not find is skipped
enhance_employees(project, all_employees, similar_employees) ==
    IF similar_employees = <<>> THEN <<>>
    ELSE LET employee_data == Head(similar_employees)
             employee_id == employee_data.employee_id
             rest == enhance_employees(project, all_employees,
                                       Tail(similar_employees))
         IN  IF HasRow(all_employees, employee_id)
             THEN LET employee == all_employees[employee_id]
                      gaps == find_skill_gaps(employee.skills,
                                              project.required_skills)
                  IN  << [employee_id |-> employee_id,
                          name |-> employee.name,
                          skills |-> employee.skills,
                          preferences |-> employee.preferences,
                          similarity_score |-> employee_data.similarity_score,
                          skill_match_percentage |-> gaps.match_percentage,
                          matched_skills |-> gaps.matched_skills,
                          missing_skills |-> gaps.missing_skills,
                          overall_score |->
                              calculate_overall_score(
                                  employee_data.similarity_score,
                                  gaps.match_percentage)] >> \o rest
             ELSE rest

\* arguments that name the first employee whoever the match was made for
HistoryArgsFirstEmployee(employee_id, enhanced_match) ==
    [employee_id |-> 1,
     project_id |-> enhanced_match.project_id,
     match_score |-> enhanced_match.similarity_score,
     missing_skills |-> enhanced_match.missing_skills,
     matched_skills |-> enhanced_match.matched_skills,
     skill_match_percentage |-> enhanced_match.skill_match_percentage,
     overall_score |-> enhanced_match.overall_score]

\* the arguments match_employee_to_projects gives add_match_history
HistoryArgs(employee_id, enhanced_match) ==
    [employee_id |-> employee_id,
     project_id |-> enhanced_match.project_id,
     match_score |-> enhanced_match.similarity_score,
     missing_skills |-> enhanced_match.missing_skills,
     matched_skills |-> enhanced_match.matched_skills,
     skill_match_percentage |-> enhanced_match.skill_match_percentage,
     overall_score |-> enhanced_match.overall_score]

\* the values CURRENT_TIMESTAMP may have in n add_match_history calls made
\* one after another from the time `from` on: the clock does not go back
CallTimes(from, n) ==
    { timestamps \in [1..n -> from..MaxClock] :
        \A i \in 1..(n - 1) : timestamps[i] <= timestamps[i + 1] }

\* the clock after the calls
ClockAfter(from, timestamps) ==
    IF timestamps = <<>> THEN from ELSE timestamps[Len(timestamps)]

RECURSIVE store_matches(_, _, _, _)
\* match_employee_to_projects, "Store match in history" for each enhanced
\* match in turn; timestamps[i] is CURRENT_TIMESTAMP in the i-th call
store_matches(rows, employee_id, enhanced_matches, timestamps) ==
    IF enhanced_matches = <<>> THEN rows
    ELSE store_matches(
             add_match_history(rows,
                               HistoryArgs(employee_id, Head(enhanced_matches)),
                               Head(timestamps)),
             employee_id, Tail(enhanced_matches), Tail(timestamps))

\* a match list left in the order of the query
unsorted(matches) == matches

RECURSIVE sort_by_overall_score(_)
\* enhanced_matches.sort(key=overall_score, reverse=True): descending, and
\* stable (equal scores keep their order)
sort_by_overall_score(matches) ==
    IF Len(matches) <= 1 THEN matches
    ELSE LET sorted == sort_by_overall_score(SubSeq(matches, 1, Len(matches) - 1))
             m == matches[Len(matches)]
             k == Cardinality({i \in 1..Len(sorted) :
                                 sorted[i].overall_score >= m.overall_score})
         IN  SubSeq(sorted, 1, k) \o <<m>> \o SubSeq(sorted, k + 1, Len(sorted))

---------------------------------------------------------------------------
(* State *)

Entities == ({"employee"} \X EmployeeIds) \cup ({"project"} \X ProjectIds)

\* what a caller got back: the handler, the id and top_k it was given, the
\* HTTP status (0: the process died before answering) and, for a match
\* request, the list the orchestrator returned
Response(op, id, top_k, status, matches) ==
    [op |-> op, id |-> id, top_k |-> top_k, status |-> status,
     matches |-> matches]

\* what the match requests did for an entity's embedding since the entity
\* was last written by a handler: how often they generated it, how often
\* they wrote the generated embedding to the record, and whether a later one
\* found the embedding they had generated
NotGenerated == [generated |-> 0, written |-> 0, reused |-> FALSE]

\* what the working directory may hold as data/sample_projects.json and
\* data/sample_courses.json when the process starts: nothing, or two
\* projects and one course
SampleData ==
    { [sample_projects |-> <<>>, sample_courses |-> <<>>],
      [sample_projects |->
           << [title |-> "Api", required_skills |-> <<"go", "sql">>,
               team_size |-> 2, description |-> "backend"],
              [title |-> "Web", required_skills |-> <<"JavaScript">>,
               team_size |-> 3, description |-> "frontend"] >>,
       sample_courses |->
           << [title |-> "SQL basics", skill_tags |-> <<"sql">>,
               provider |-> "in-house", url |-> "", description |-> ""] >>] }

\* the embedding load_sample_data generates for a sample project
SampleEmbedding(project) ==
    generate_embedding(ProjectText(project.title, project.required_skills,
                                   project.description))

RECURSIVE load_sample_projects(_, _)
\* load_sample_data, the rows of table projects after its first loop:
\* add_project and update_project_embedding for each sample project
load_sample_projects(rows, sample_projects) ==
    IF sample_projects = <<>> THEN rows
    ELSE LET project == Head(sample_projects)
             added == add_project(rows,
                          [title |-> project.title,
                           required_skills |-> project.required_skills,
                           team_size |-> project.team_size,
                           description |-> project.description,
                           embedding_vector |-> NullEmbedding])
         IN  load_sample_projects(
                 db_update_embedding(added, Len(rows) + 1,
                                     SampleEmbedding(project)),
                 Tail(sample_projects))

RECURSIVE index_sample_projects(_, _, _)
\* load_sample_data, the collection after its first loop:
\* add_project_embedding for each sample project, under the id add_project
\* returned
index_sample_projects(collection, sample_projects, project_id) ==
    IF sample_projects = <<>> THEN collection
    ELSE LET project == Head(sample_projects)
         IN  index_sample_projects(
                 add_project_embedding(collection, project_id, project.title,
                     project.required_skills, project.description,
                     SampleEmbedding(project)),
                 Tail(sample_projects), project_id + 1)

RECURSIVE load_sample_courses(_, _)
\* load_sample_data, its second loop: add_course for each sample course
load_sample_courses(rows, sample_courses) ==
    IF sample_courses = <<>> THEN rows
    ELSE load_sample_courses(add_course(rows, Head(sample_courses)),
                             Tail(sample_courses))

\* startup_event on the stores the process finds when it starts: with no
\* project and no course load_sample_data loads what data/ holds, otherwise
\* the stores stay as they are.  The possible outcomes, `writers` being
\* the components that had written an embedding before
startup_event(rows, collection, course_rows, writers) ==
    IF rows = <<>> /\ course_rows = <<>>
    THEN { [projects |-> load_sample_projects(<<>>, data.sample_projects),
            projects_collection |->
                index_sample_projects(collection, data.sample_projects, 1),
            courses |-> load_sample_courses(<<>>, data.sample_courses),
            embedding_writers |->
                IF data.sample_projects = <<>> THEN writers
                ELSE writers \cup {"main"}] :
           data \in SampleData }
    ELSE { [projects |-> rows, projects_collection |-> collection,
            courses |-> course_rows, embedding_writers |-> writers] }

\* the process has started for the first time and startup_event has left
\* the stores as `started`: init_database has made the empty tables, the
\* Chroma directory is new
FirstStart(started) ==
    /\ employees = <<>>
    /\ projects = started.projects
    /\ match_history = <<>>
    /\ employees_collection = <<>>
    /\ projects_collection = started.projects_collection
    /\ now = 0
    /\ response = Response("startup", 0, 0, 200, <<>>)
    /\ last_upsert = <<>>
    /\ embedding_writers = started.embedding_writers
    /\ match_generated = [e \in Entities |-> NotGenerated]
    /\ history_calls = <<>>
    /\ index_calls = <<>>
    /\ courses = started.courses
    /\ update_calls = <<>>
    /\ requests = 0

Init == \E started \in startup_event(<<>>, <<>>, <<>>, {}) : FirstStart(started)

\* for each pair, the arguments and the time of the latest add_match_history
\* call, and whether an earlier call for the pair had been made at an earlier
\* time with another match_score; after one more call for each of the
\* enhanced matches, the i-th at timestamps[i]
RecordUpserts(history, employee_id, enhanced_matches, timestamps) ==
    LET pairs == { <<employee_id, enhanced_matches[i].project_id>> :
                     i \in 1..Len(enhanced_matches) }
        last(pair) == CHOOSE i \in 1..Len(enhanced_matches) :
                        /\ enhanced_matches[i].project_id = pair[2]
                        /\ \A j \in (i + 1)..Len(enhanced_matches) :
                             enhanced_matches[j].project_id # pair[2]
    IN  [pair \in DOMAIN history \cup pairs |->
            IF pair \in pairs
            THEN [args |-> HistoryArgs(employee_id, enhanced_matches[last(pair)]),
                  timestamp |-> timestamps[last(pair)],
                  overwrote |->
                      /\ pair \in DOMAIN history
                      /\ history[pair].timestamp < timestamps[last(pair)]
                      /\ history[pair].args.match_score
                           # enhanced_matches[last(pair)].similarity_score]
            ELSE history[pair]]

\* a handler takes one more request; the model follows the service for
\* MaxRequests requests
Served ==
    /\ requests < MaxRequests
    /\ requests' = requests + 1

\* CURRENT_TIMESTAMP moves on between requests (and between the
\* add_match_history calls of one request, see CallTimes)
Tick ==
    /\ now < MaxClock
    /\ now' = now + 1
    /\ UNCHANGED <<requests, courses, update_calls, employees, projects, match_history, employees_collection,
                   projects_collection, response, last_upsert,
                   embedding_writers, match_generated, history_calls,
                   index_calls>>

---------------------------------------------------------------------------
(* Request handlers (main.py).  `done` is the number of the handler's      *)
(* writes that were carried out, `replied` whether the caller got the      *)
(* answer: all three writes and the answer when the handler returns, any   *)
(* number of writes and no answer when the process dies; it is then        *)
(* started again and startup_event runs on the stores it finds.            *)

\* upload_resume: add_employee, update_employee_embedding,
\* add_employee_embedding
UploadResumeSteps(request, done, replied) ==
    LET extracted_skills == extract_skills(request.resume_text)
        employee == [name |-> request.name,
                     skills |-> extracted_skills,
                     preferences |-> request.preferences,
                     resume_text |-> request.resume_text,
                     embedding_vector |-> NullEmbedding]
        employee_id == Len(employees) + 1
        embedding == generate_embedding(
                         EmployeeText(employee.name, employee.skills,
                                      employee.resume_text))
        added == add_employee(employees, employee)
    IN  /\ Served
        /\ Len(employees) < MaxEmployees
        /\ employees' = IF done >= 2
                        THEN db_update_embedding(added, employee_id, embedding)
                        ELSE IF done = 1 THEN added ELSE employees
        /\ employees_collection' =
             IF done >= 3
             THEN add_employee_embedding(employees_collection, employee_id,
                      employee.name, employee.skills, employee.resume_text,
                      embedding)
             ELSE employees_collection
        /\ response' = Response("upload_resume", employee_id, 0,
                                IF replied THEN 200 ELSE 0, <<>>)
        /\ IF replied
           THEN /\ embedding_writers' = embedding_writers \cup {"main"}
                /\ UNCHANGED <<projects, projects_collection, courses>>
           ELSE \E started \in
                     startup_event(projects, projects_collection, courses,
                                   IF done >= 2
                                   THEN embedding_writers \cup {"main"}
                                   ELSE embedding_writers) :
                  /\ projects' = started.projects
                  /\ projects_collection' = started.projects_collection
                  /\ courses' = started.courses
                  /\ embedding_writers' = started.embedding_writers
        /\ UNCHANGED <<update_calls, match_history, now, last_upsert,
                       match_generated, history_calls, index_calls>>

UploadResume(request) == UploadResumeSteps(request, 3, TRUE)

\* the process dies in upload_resume: before add_employee, after it, after
\* db_manager.update_employee_embedding, or after
\* vector_store.add_employee_embedding and before the answer leaves
UploadResumeCrash(request) ==
    \E done \in 0..3 : UploadResumeSteps(request, done, FALSE)

\* add_project: add_project, update_project_embedding, add_project_embedding
AddProjectSteps(request, done, replied) ==
    LET project == [title |-> request.title,
                    required_skills |-> request.required_skills,
                    team_size |-> request.team_size,
                    description |-> request.description,
                    embedding_vector |-> NullEmbedding]
        project_id == Len(projects) + 1
        embedding == generate_embedding(
                         ProjectText(project.title, project.required_skills,
                                     project.description))
        added == add_project(projects, project)
        written == IF done >= 2
                   THEN db_update_embedding(added, project_id, embedding)
                   ELSE IF done = 1 THEN added ELSE projects
        indexed == IF done >= 3
                   THEN add_project_embedding(projects_collection, project_id,
                            project.title, project.required_skills,
                            project.description, embedding)
                   ELSE projects_collection
    IN  /\ Served
        /\ Len(projects) < MaxProjects
        /\ response' = Response("add_project", project_id, 0,
                                IF replied THEN 200 ELSE 0, <<>>)
        /\ \E started \in
                IF replied
                THEN { [projects |-> written,
                        projects_collection |-> indexed,
                        courses |-> courses,
                        embedding_writers |-> embedding_writers \cup {"main"}] }
                ELSE startup_event(written, indexed, courses,
                                   IF done >= 2
                                   THEN embedding_writers \cup {"main"}
                                   ELSE embedding_writers) :
             /\ projects' = started.projects
             /\ projects_collection' = started.projects_collection
             /\ courses' = started.courses
             /\ embedding_writers' = started.embedding_writers
        /\ UNCHANGED <<update_calls, employees, match_history,
                       employees_collection, now, last_upsert,
                       match_generated, history_calls, index_calls>>

AddProject(request) == AddProjectSteps(request, 3, TRUE)

\* the process dies in add_project: before add_project, after it, after
\* db_manager.update_project_embedding, or after
\* vector_store.add_project_embedding and before the answer leaves
AddProjectCrash(request) ==
    \E done \in 0..3 : AddProjectSteps(request, done, FALSE)

\* update_project for a project that exists: update_project,
\* update_project_embedding (record store), and the delete and the add of
\* update_project_embedding (index).  A process that dies before the first
\* write may also have been asked for a project that does not exist.
UpdateProjectSteps(project_id, request, done, replied) ==
    LET embedding == generate_embedding(
                         ProjectText(request.title, request.required_skills,
                                     request.description))
        updated == IF done >= 1
                   THEN db_update_project(projects, project_id, request)
                   ELSE projects
        written == IF done >= 2
                   THEN db_update_embedding(updated, project_id, embedding)
                   ELSE updated
        deleted == IF done >= 3
                   THEN CollectionDelete(projects_collection, project_id)
                   ELSE projects_collection
        indexed == IF done >= 4
                   THEN add_project_embedding(deleted, project_id,
                            request.title, request.required_skills,
                            request.description, embedding)
                   ELSE deleted
    IN  /\ Served
        /\ HasRow(projects, project_id) \/ (done = 0 /\ ~replied)
        /\ match_generated' =
             IF done >= 2
             THEN [match_generated EXCEPT
                       ![<<"project", project_id>>] = NotGenerated]
             ELSE match_generated
        /\ response' = Response("update_project", project_id, 0,
                                IF replied THEN 200 ELSE 0, <<>>)
        /\ \E started \in
                IF replied
                THEN { [projects |-> written,
                        projects_collection |-> indexed,
                        courses |-> courses,
                        embedding_writers |-> embedding_writers \cup {"main"}] }
                ELSE startup_event(written, indexed, courses,
                                   IF done >= 2
                                   THEN embedding_writers \cup {"main"}
                                   ELSE embedding_writers) :
             /\ projects' = started.projects
             /\ projects_collection' = started.projects_collection
             /\ courses' = started.courses
             /\ embedding_writers' = started.embedding_writers
        /\ UNCHANGED <<update_calls, employees, match_history,
                       employees_collection, now, last_upsert, history_calls,
                       index_calls>>

UpdateProject(project_id, request) ==
    UpdateProjectSteps(project_id, request, 4, TRUE)

\* the process dies in update_project: before db_manager.update_project,
\* after it, after db_manager.update_project_embedding, between the delete
\* and the add of vector_store.update_project_embedding, or after the add
\* and before the answer leaves
UpdateProjectCrash(project_id, request) ==
    \E done \in 0..4 : UpdateProjectSteps(project_id, request, done, FALSE)

\* update_project for a project that does not exist: the HTTPException(404)
\* is raised inside the handler's try and leaves it as a 500
UpdateProjectMissing(project_id, request) ==
    /\ Served
    /\ ~HasRow(projects, project_id)
    /\ response' = Response("update_project", project_id, 0, 500, <<>>)
    /\ UNCHANGED <<courses, update_calls, employees, projects, match_history, employees_collection,
                   projects_collection, now, last_upsert, embedding_writers,
                   match_generated, history_calls, index_calls>>

---------------------------------------------------------------------------
(* Match requests: match_projects -> match_employee_to_projects and        *)
(* match_employees -> match_project_to_employees                           *)

\* match_employee_to_projects for an employee get_employee does not find
MatchProjectsMissing(employee_id, top_k) ==
    /\ Served
    /\ ~HasRow(employees, employee_id)
    /\ response' = Response("match_projects", employee_id, top_k, 200, <<>>)
    /\ UNCHANGED <<courses, update_calls, employees, projects, match_history, employees_collection,
                   projects_collection, now, last_upsert, embedding_writers,
                   match_generated, history_calls, index_calls>>

\* match_employee_to_projects, "Get employee embedding", as far as `done`
\* of its steps went: 1 generate_embedding, 2 db.update_employee_embedding,
\* 3 the delete and 4 the add of vector_store.update_employee_embedding.
\* The stores and the history it leaves
employee_embedding_steps(employee_id, done) ==
    LET employee == employees[employee_id]
        employee_embedding ==
            generate_embedding(EmployeeText(employee.name, employee.skills,
                                            employee.resume_text))
    IN  IF NeedsEmbedding(employee)
        THEN [employees |->
                  IF done >= 2
                  THEN db_update_embedding(employees, employee_id,
                                           employee_embedding)
                  ELSE employees,
              employees_collection |->
                  IF done >= 4
                  THEN update_employee_embedding(employees_collection,
                           employee_id, employee.name, employee.skills,
                           employee.resume_text, employee_embedding)
                  ELSE IF done = 3
                  THEN CollectionDelete(employees_collection, employee_id)
                  ELSE employees_collection,
              embedding_writers |->
                  IF done >= 2 THEN embedding_writers \cup {"match"}
                  ELSE embedding_writers,
              match_generated |->
                  IF done >= 1
                  THEN [match_generated EXCEPT
                           ![<<"employee", employee_id>>].generated = @ + 1,
                           ![<<"employee", employee_id>>].written =
                               IF done >= 2 THEN @ + 1 ELSE @]
                  ELSE match_generated]
        ELSE [employees |-> employees,
              employees_collection |-> employees_collection,
              embedding_writers |-> embedding_writers,
              match_generated |->
                  [match_generated EXCEPT
                      ![<<"employee", employee_id>>].reused =
                          @ \/ match_generated[<<"employee", employee_id>>].generated > 0]]

\* match_employee_to_projects, "Get employee embedding", run to its end
MatchEmployeeEmbedding(employee_id) ==
    /\ employees' = employee_embedding_steps(employee_id, 4).employees
    /\ employees_collection' =
         employee_embedding_steps(employee_id, 4).employees_collection
    /\ embedding_writers' =
         employee_embedding_steps(employee_id, 4).embedding_writers
    /\ match_generated' =
         employee_embedding_steps(employee_id, 4).match_generated

\* match_employee_to_projects for an employee that exists
MatchProjects(employee_id, top_k) ==
    /\ Served
    /\ HasRow(employees, employee_id)
    /\ MatchEmployeeEmbedding(employee_id)
    /\ LET employee == employees'[employee_id]
       IN  IF QueryRaises(top_k)
           THEN /\ response' = Response("match_projects", employee_id, top_k,
                                        500, <<>>)
                /\ UNCHANGED <<match_history, last_upsert, now>>
           ELSE \E similar_projects \in
                      find_similar_projects(projects_collection,
                                            employee.embedding_vector, top_k) :
                  LET enhanced_matches ==
                          enhance_projects(employee, projects, similar_projects)
                  IN  \E timestamps \in
                            CallTimes(now, Len(enhanced_matches)) :
                        /\ match_history' =
                             store_matches(match_history, employee_id,
                                           enhanced_matches, timestamps)
                        /\ last_upsert' =
                             RecordUpserts(last_upsert, employee_id,
                                           enhanced_matches, timestamps)
                        /\ now' = ClockAfter(now, timestamps)
                        /\ response' =
                             Response("match_projects", employee_id, top_k,
                                      200,
                                      sort_by_overall_score(enhanced_matches))
    /\ UNCHANGED <<courses, update_calls, projects, projects_collection,
                   history_calls, index_calls>>

\* match_project_to_employees for a project not among get_all_projects()
MatchEmployeesMissing(project_id, top_k) ==
    /\ Served
    /\ ~HasRow(projects, project_id)
    /\ response' = Response("match_employees", project_id, top_k, 200, <<>>)
    /\ UNCHANGED <<courses, update_calls, employees, projects, match_history, employees_collection,
                   projects_collection, now, last_upsert, embedding_writers,
                   match_generated, history_calls, index_calls>>

\* match_project_to_employees, "Get project embedding", as far as `done`
\* of its steps went: 1 generate_embedding, 2 db.update_project_embedding,
\* 3 the delete and 4 the add of vector_store.update_project_embedding.
\* The stores and the history it leaves
project_embedding_steps(project_id, done) ==
    LET project == projects[project_id]
        project_embedding ==
            generate_embedding(ProjectText(project.title,
                                           project.required_skills,
                                           project.description))
    IN  IF NeedsEmbedding(project)
        THEN [projects |->
                  IF done >= 2
                  THEN db_update_embedding(projects, project_id,
                                           project_embedding)
                  ELSE projects,
              projects_collection |->
                  IF done >= 4
                  THEN update_project_embedding(projects_collection,
                           project_id, project.title,
                           project.required_skills, project.description,
                           project_embedding)
                  ELSE IF done = 3
                  THEN CollectionDelete(projects_collection, project_id)
                  ELSE projects_collection,
              embedding_writers |->
                  IF done >= 2 THEN embedding_writers \cup {"match"}
                  ELSE embedding_writers,
              match_generated |->
                  IF done >= 1
                  THEN [match_generated EXCEPT
                           ![<<"project", project_id>>].generated = @ + 1,
                           ![<<"project", project_id>>].written =
                               IF done >= 2 THEN @ + 1 ELSE @]
                  ELSE match_generated]
        ELSE [projects |-> projects,
              projects_collection |-> projects_collection,
              embedding_writers |-> embedding_writers,
              match_generated |->
                  [match_generated EXCEPT
                      ![<<"project", project_id>>].reused =
                          @ \/ match_generated[<<"project", project_id>>].generated > 0]]

\* match_project_to_employees, "Get project embedding", run to its end
MatchProjectEmbedding(project_id) ==
    /\ projects' = project_embedding_steps(project_id, 4).projects
    /\ projects_collection' =
         project_embedding_steps(project_id, 4).projects_collection
    /\ embedding_writers' =
         project_embedding_steps(project_id, 4).embedding_writers
    /\ match_generated' =
         project_embedding_steps(project_id, 4).match_generated

\* match_project_to_employees for a project that exists; it never calls
\* add_match_history
MatchEmployees(project_id, top_k) ==
    /\ Served
    /\ HasRow(projects, project_id)
    /\ MatchProjectEmbedding(project_id)
    /\ LET project == projects'[project_id]
       IN  IF QueryRaises(top_k)
           THEN response' = Response("match_employees", project_id, top_k,
                                     500, <<>>)
           ELSE \E similar_employees \in
                      find_similar_employees(employees_collection,
                                             project.embedding_vector, top_k) :
                  response' = Response("match_employees", project_id, top_k, 200,
                                  sort_by_overall_score(
                                      enhance_employees(project, employees,
                                                        similar_employees)))
    /\ UNCHANGED <<courses, update_calls, employees, match_history, employees_collection, now,
                   last_upsert, history_calls, index_calls>>

\* the process dies in match_projects after `done` steps of "Get employee
\* embedding" and, those finished, after `stored` calls of
\* add_match_history; it is started again
MatchProjectsDied(employee_id, top_k, after, done) ==
    /\ employees' = after.employees
    /\ employees_collection' = after.employees_collection
    /\ match_generated' = after.match_generated
    /\ response' = Response("match_projects", employee_id, top_k, 0, <<>>)
    /\ IF done < 4 \/ QueryRaises(top_k)
       THEN UNCHANGED <<match_history, last_upsert, now>>
       ELSE \E similar_projects \in
                  find_similar_projects(projects_collection,
                      after.employees[employee_id].embedding_vector, top_k) :
              \E stored \in
                    0..Len(enhance_projects(after.employees[employee_id],
                                            projects, similar_projects)) :
                \E timestamps \in CallTimes(now, stored) :
                  /\ match_history' =
                       store_matches(match_history, employee_id,
                           SubSeq(enhance_projects(
                                      after.employees[employee_id], projects,
                                      similar_projects), 1, stored),
                           timestamps)
                  /\ last_upsert' =
                       RecordUpserts(last_upsert, employee_id,
                           SubSeq(enhance_projects(
                                      after.employees[employee_id], projects,
                                      similar_projects), 1, stored),
                           timestamps)
                  /\ now' = ClockAfter(now, timestamps)
    /\ \E started \in startup_event(projects, projects_collection, courses,
                                    after.embedding_writers) :
         /\ projects' = started.projects
         /\ projects_collection' = started.projects_collection
         /\ courses' = started.courses
         /\ embedding_writers' = started.embedding_writers
    /\ UNCHANGED <<update_calls, history_calls, index_calls>>

\* the process dies in match_projects for an employee that exists: before
\* or after generate_embedding, after db.update_employee_embedding, between
\* the delete and the add of vector_store.update_employee_embedding, or
\* after any number of the add_match_history calls
MatchProjectsCrash(employee_id, top_k) ==
    /\ Served
    /\ HasRow(employees, employee_id)
    /\ \E done \in 0..4 :
         /\ done = 4 \/ NeedsEmbedding(employees[employee_id])
         /\ MatchProjectsDied(employee_id, top_k,
                              employee_embedding_steps(employee_id, done),
                              done)

\* the process dies in match_employees after `done` steps of "Get project
\* embedding"; it is started again
MatchEmployeesDied(project_id, top_k, after) ==
    /\ match_generated' = after.match_generated
    /\ response' = Response("match_employees", project_id, top_k, 0, <<>>)
    /\ \E started \in startup_event(after.projects,
                                    after.projects_collection, courses,
                                    after.embedding_writers) :
         /\ projects' = started.projects
         /\ projects_collection' = started.projects_collection
         /\ courses' = started.courses
         /\ embedding_writers' = started.embedding_writers
    /\ UNCHANGED <<update_calls, employees, match_history,
                   employees_collection, now, last_upsert, history_calls,
                   index_calls>>

\* the process dies in match_employees for a project that exists: before or
\* after generate_embedding, after db.update_project_embedding, between the
\* delete and the add of vector_store.update_project_embedding, or after
\* them and before the answer leaves
MatchEmployeesCrash(project_id, top_k) ==
    /\ Served
    /\ HasRow(projects, project_id)
    /\ \E done \in 0..4 :
         /\ done = 4 \/ NeedsEmbedding(projects[project_id])
         /\ MatchEmployeesDied(project_id, top_k,
                               project_embedding_steps(project_id, done))

---------------------------------------------------------------------------
(* Advisory requests and add_course: skill_gap -> analyze_skill_gaps,      *)
(* career_path -> get_career_path_suggestions, employee profile            *)

\* project_id: Optional[int] = None of get_skill_gap when it is left out
NoProject == -1

\* Python values analyze_skill_gaps and get_career_path_suggestions return
\* beside a filled dict
EmptyDict == [value |-> "{}"]
None == [value |-> "None"]

\* a call that returned a row or an id, and a call that raised
Row == [value |-> "row"]
Raised == [value |-> "raised"]

\* `not x` for a returned value
Falsy(x) == x.value \in {"{}", "None"}

\* the sequences that list a set once, in any order
Orders(S) ==
    { order \in [1..Cardinality(S) -> S] :
        \A i \in DOMAIN order, j \in DOMAIN order :
           i # j => order[i] # order[j] }

\* the set all_required_skills of analyze_skill_gaps
AllRequiredSkills(all_projects) ==
    UNION { { all_projects[i].required_skills[k] :
                k \in 1..Len(all_projects[i].required_skills) } :
            i \in 1..Len(all_projects) }

\* the orders list(all_required_skills) may have where analyze_skill_gaps
\* builds the list: for an employee that exists and no project_id
RequiredSkillOrders(employee_id, project_id) ==
    IF HasRow(employees, employee_id)
       /\ (project_id = NoProject \/ project_id = 0)
    THEN Orders(AllRequiredSkills(projects))
    ELSE {<<>>}

\* TalentMatcher.analyze_skill_gaps; all_required_skills is
\* list(all_required_skills), the set in the order the process iterates it
analyze_skill_gaps(employee_id, project_id, all_required_skills) ==
    IF ~HasRow(employees, employee_id) THEN EmptyDict
    ELSE LET employee == employees[employee_id]
         IN  IF project_id # NoProject /\ project_id # 0
             THEN IF HasRow(projects, project_id)
                  THEN LET project == projects[project_id]
                           skill_gap_analysis ==
                               find_skill_gaps(employee.skills,
                                               project.required_skills)
                       IN  [value |-> "dict",
                            employee_id |-> employee_id,
                            project_id |-> project_id,
                            project_title |-> project.title,
                            skill_gap_analysis |-> skill_gap_analysis,
                            recommended_courses |->
                                recommend_courses(
                                    skill_gap_analysis.missing_skills, courses)]
                  ELSE None
             ELSE LET skill_gap_analysis ==
                          find_skill_gaps(employee.skills, all_required_skills)
                  IN  [value |-> "dict",
                       employee_id |-> employee_id,
                       skill_gap_analysis |-> skill_gap_analysis,
                       recommended_courses |->
                           recommend_courses(
                               skill_gap_analysis.missing_skills, courses),
                       skill_categories |-> categorize_skills(employee.skills)]

\* TalentMatcher._assess_skill_level
assess_skill_level(skills) ==
    IF Len(skills) < 5 THEN "Junior"
    ELSE IF Len(skills) < 15 THEN "Mid-level"
    ELSE IF Len(skills) < 25 THEN "Senior"
    ELSE "Expert"

\* DatabaseManager.get_employee_match_history: the rows of the employee
\* joined with their projects, ORDER BY timestamp DESC; rows of one
\* timestamp come in an order SQLite does not fix
get_employee_match_history(employee_id) ==
    LET found == { i \in 1..Len(match_history) :
                     /\ match_history[i].employee_id = employee_id
                     /\ HasRow(projects, match_history[i].project_id) }
        Dict(i) ==
            LET mh == match_history[i]
                project == projects[mh.project_id]
            IN  [match_id |-> mh.id, employee_id |-> mh.employee_id,
                 project_id |-> mh.project_id, match_score |-> mh.match_score,
                 missing_skills |-> mh.missing_skills,
                 matched_skills |-> mh.matched_skills,
                 skill_match_percentage |-> mh.skill_match_percentage,
                 overall_score |-> mh.overall_score,
                 timestamp |-> mh.timestamp,
                 project_title |-> project.title,
                 project_description |-> project.description,
                 project_required_skills |-> project.required_skills,
                 project_team_size |-> project.team_size]
    IN  { [k \in DOMAIN order |-> Dict(order[k])] :
            order \in { o \in Orders(found) :
                          \A a \in DOMAIN o, b \in DOMAIN o :
                             a < b => match_history[o[a]].timestamp
                                        >= match_history[o[b]].timestamp } }

\* what the caller of an advisory request got back: the handler, its
\* arguments, the HTTP status, the detail of an HTTPException, the body of
\* a 200, and what the handler's call of the orchestrator or of the record
\* store had returned to it
Reply(op, id, project_id, status, detail, body, returned) ==
    [op |-> op, id |-> id, top_k |-> 0, status |-> status, matches |-> <<>>,
     project_id |-> project_id, detail |-> detail, body |-> body,
     returned |-> returned]

\* the handler's `raise HTTPException(status_code=404, detail=...)` is
\* inside its `try`, whose `except Exception as e` raises
\* HTTPException(status_code=500, detail=f"{prefix}: {str(e)}") in its
\* place; str of an HTTPException is "404: " and its detail
NotFoundRaised(op, id, project_id, prefix, detail, returned) ==
    Reply(op, id, project_id, 500, prefix \o ": 404: " \o detail, <<>>,
          returned)

\* get_skill_gap
SkillGap(employee_id, project_id) ==
    /\ Served
    /\ \E all_required_skills \in
            RequiredSkillOrders(employee_id, project_id) :
         LET skill_gap_analysis ==
                 analyze_skill_gaps(employee_id, project_id,
                                    all_required_skills)
         IN  response' =
                 IF Falsy(skill_gap_analysis)
                 THEN NotFoundRaised("skill_gap", employee_id, project_id,
                                     "Error analyzing skill gaps",
                                     "Employee not found", skill_gap_analysis)
                 ELSE Reply("skill_gap", employee_id, project_id, 200, "",
                            [employee_id |-> employee_id,
                             skill_gap_analysis |->
                                 skill_gap_analysis.skill_gap_analysis,
                             recommended_courses |->
                                 skill_gap_analysis.recommended_courses],
                            skill_gap_analysis)
    /\ UNCHANGED <<courses, update_calls, employees, projects, match_history,
                   employees_collection, projects_collection, now,
                   last_upsert, embedding_writers, match_generated,
                   history_calls, index_calls>>

\* get_career_path for an employee get_employee does not find:
\* get_career_path_suggestions returns {}
CareerPathMissing(employee_id) ==
    /\ Served
    /\ ~HasRow(employees, employee_id)
    /\ response' = NotFoundRaised("career_path", employee_id, NoProject,
                                  "Error generating career path",
                                  "Employee not found", EmptyDict)
    /\ UNCHANGED <<courses, update_calls, employees, projects, match_history,
                   employees_collection, projects_collection, now,
                   last_upsert, embedding_writers, match_generated,
                   history_calls, index_calls>>

\* get_career_path for an employee that exists: get_career_path_suggestions
\* runs match_employee_to_projects(employee_id, top_k=10), which stores its
\* matches, and analyze_skill_gaps(employee_id)
CareerPath(employee_id) ==
    /\ Served
    /\ HasRow(employees, employee_id)
    /\ MatchEmployeeEmbedding(employee_id)
    /\ LET employee == employees'[employee_id]
       IN  \E similar_projects \in
                 find_similar_projects(projects_collection,
                                       employee.embedding_vector, 10),
              all_required_skills \in Orders(AllRequiredSkills(projects)) :
           \E timestamps \in
                 CallTimes(now, Len(enhance_projects(employee, projects,
                                                     similar_projects))) :
             LET enhanced_matches ==
                     enhance_projects(employee, projects, similar_projects)
                 current_matches == sort_by_overall_score(enhanced_matches)
                 skill_categories_of == categorize_skills(employee.skills)
                 skill_gap_analysis ==
                     analyze_skill_gaps(employee_id, NoProject,
                                        all_required_skills)
                 career_suggestions ==
                     [value |-> "dict",
                      current_level |-> assess_skill_level(employee.skills),
                      skill_categories |-> skill_categories_of,
                      current_matches |-> FirstThree(current_matches),
                      skill_gaps |-> skill_gap_analysis.skill_gap_analysis,
                      recommended_courses |->
                          skill_gap_analysis.recommended_courses,
                      next_level_projects |->
                          find_next_level_projects(employee.skills, projects),
                      career_trajectory |->
                          suggest_career_trajectory(skill_categories_of)]
             IN  /\ match_history' =
                      store_matches(match_history, employee_id,
                                    enhanced_matches, timestamps)
                 /\ last_upsert' =
                      RecordUpserts(last_upsert, employee_id,
                                    enhanced_matches, timestamps)
                 /\ now' = ClockAfter(now, timestamps)
                 /\ response' = Reply("career_path", employee_id, NoProject,
                                      200, "", career_suggestions,
                                      career_suggestions)
    /\ UNCHANGED <<courses, update_calls, projects, projects_collection,
                   history_calls, index_calls>>

\* get_employee_profile
EmployeeProfile(employee_id) ==
    /\ Served
    /\ IF ~HasRow(employees, employee_id)
       THEN response' = NotFoundRaised("employee_profile", employee_id,
                                       NoProject,
                                       "Error fetching employee profile",
                                       "Employee not found", None)
       ELSE \E history \in get_employee_match_history(employee_id) :
              LET employee == employees[employee_id]
              IN  response' =
                      Reply("employee_profile", employee_id, NoProject, 200,
                            "",
                            [employee_profile |->
                                 [id |-> employee.id, name |-> employee.name,
                                  skills |-> employee.skills,
                                  preferences |-> employee.preferences,
                                  resume_text |-> employee.resume_text,
                                  total_skills |-> Len(employee.skills)],
                             match_history |-> history,
                             total_matches |-> Len(history)],
                            Row)
    /\ UNCHANGED <<courses, update_calls, employees, projects, match_history,
                   employees_collection, projects_collection, now,
                   last_upsert, embedding_writers, match_generated,
                   history_calls, index_calls>>

\* CourseRequest bodies
CourseRequests ==
    { [title |-> "SQL basics", skill_tags |-> <<"sql">>,
       provider |-> "in-house", url |-> "", description |-> ""],
      [title |-> "Web", skill_tags |-> <<"JavaScript", "react">>,
       provider |-> "in-house", url |-> "", description |-> ""] }

\* add_course
AddCourse(request) ==
    /\ Served
    /\ Len(courses) < MaxStoredCourses
    /\ courses' = add_course(courses, request)
    /\ response' = Reply("add_course", Len(courses) + 1, NoProject, 200, "",
                         <<>>, Row)
    /\ UNCHANGED <<update_calls, employees, projects, match_history,
                   employees_collection, projects_collection, now,
                   last_upsert, embedding_writers, match_generated,
                   history_calls, index_calls>>

\* the handlers that answer an absent entity with HTTPException(404), and
\* the prefix of the detail of their HTTPException(500)
NotFoundHandlers ==
    [update_project |-> "Error updating project",
     skill_gap |-> "Error analyzing skill gaps",
     career_path |-> "Error generating career path",
     employee_profile |-> "Error fetching employee profile"]

\* a request whose first statement on the record store raises
\* sqlite3.OperationalError (the file cannot be opened): the handler's
\* `except Exception` answers HTTPException(500)
StoreUnreachable(op, id) ==
    /\ Served
    /\ response' = Reply(op, id, NoProject, 500,
                         NotFoundHandlers[op]
                           \o ": unable to open database file", <<>>,
                         Raised)
    /\ UNCHANGED <<courses, update_calls, employees, projects, match_history,
                   employees_collection, projects_collection, now,
                   last_upsert, embedding_writers, match_generated,
                   history_calls, index_calls>>

---------------------------------------------------------------------------
(* Spec: the requests one after another, each run to its end *)

Next ==
    \/ Tick
    \/ \E request \in UploadRequests : UploadResume(request)
    \/ \E request \in ProjectRequests : AddProject(request)
    \/ \E project_id \in ProjectIds, request \in ProjectRequests :
         UpdateProject(project_id, request)
    \/ \E project_id \in ProjectIds, request \in ProjectRequests :
         UpdateProjectMissing(project_id, request)
    \/ \E employee_id \in EmployeeIds, top_k \in TopKs :
         MatchProjects(employee_id, top_k)
    \/ \E employee_id \in EmployeeIds, top_k \in TopKs :
         MatchProjectsMissing(employee_id, top_k)
    \/ \E project_id \in ProjectIds, top_k \in TopKs :
         MatchEmployees(project_id, top_k)
    \/ \E project_id \in ProjectIds, top_k \in TopKs :
         MatchEmployeesMissing(project_id, top_k)
    \/ \E request \in CourseRequests : AddCourse(request)
    \/ \E employee_id \in EmployeeIds : CareerPath(employee_id)
    \/ \E employee_id \in EmployeeIds : CareerPathMissing(employee_id)

Spec == Init /\ [][Next]_vars

(* SpecCrash: the requests one after another, where the process may die    *)
(* inside any of them and is then started again                           *)

NextCrash ==
    \/ \E request \in UploadRequests : UploadResume(request)
    \/ \E request \in UploadRequests : UploadResumeCrash(request)
    \/ \E request \in ProjectRequests : AddProject(request)
    \/ \E request \in ProjectRequests : AddProjectCrash(request)
    \/ \E project_id \in ProjectIds, request \in ProjectRequests :
         UpdateProject(project_id, request)
    \/ \E project_id \in ProjectIds, request \in ProjectRequests :
         UpdateProjectCrash(project_id, request)
    \/ \E employee_id \in EmployeeIds, top_k \in 1..MaxTopK :
         MatchProjects(employee_id, top_k)
    \/ \E employee_id \in EmployeeIds, top_k \in 1..MaxTopK :
         MatchProjectsCrash(employee_id, top_k)
    \/ \E project_id \in ProjectIds, top_k \in 1..MaxTopK :
         MatchEmployees(project_id, top_k)
    \/ \E project_id \in ProjectIds, top_k \in 1..MaxTopK :
         MatchEmployeesCrash(project_id, top_k)

SpecCrash == Init /\ [][NextCrash]_vars

(* SpecOrphan: the requests one after another, where between two runs of   *)
(* the process the SQLite file may be gone: init_database then creates the *)
(* tables anew while the Chroma directory keeps its entries.               *)

\* the process starts on a path that holds no database:
\* DatabaseManager.__init__ makes the empty tables and startup_event runs
RecordStoreLost ==
    /\ employees' = <<>>
    /\ match_history' = <<>>
    /\ last_upsert' = <<>>
    /\ match_generated' = [e \in Entities |-> NotGenerated]
    /\ response' = Response("startup", 0, 0, 200, <<>>)
    /\ \E started \in startup_event(<<>>, projects_collection, <<>>,
                                    embedding_writers) :
         /\ projects' = started.projects
         /\ projects_collection' = started.projects_collection
         /\ courses' = started.courses
         /\ embedding_writers' = started.embedding_writers
    /\ UNCHANGED <<requests, update_calls, employees_collection, now,
                   history_calls, index_calls>>

NextOrphan ==
    \/ RecordStoreLost
    \/ \E request \in UploadRequests : UploadResume(request)
    \/ \E request \in ProjectRequests : AddProject(request)
    \/ \E employee_id \in EmployeeIds, top_k \in 1..MaxTopK :
         MatchProjects(employee_id, top_k)
    \/ \E project_id \in ProjectIds, top_k \in 1..MaxTopK :
         MatchEmployees(project_id, top_k)

SpecOrphan == Init /\ [][NextOrphan]_vars

(* SpecHistory: callers of add_match_history that run at the same time,    *)
(* each on its own connection to the one SQLite file.  A call is the steps *)
(* SELECT with fetchone(), UPDATE or INSERT, conn.commit() with            *)
(* conn.close(), and the waits of the last two for a lock; other calls may *)
(* run in between.  The file is in rollback  *)
(* journal mode, and sqlite3.connect has its default timeout of 5 s: a     *)
(* statement that finds the file locked waits that long and then raises    *)
(* OperationalError (database is locked).  A call that raised has not      *)
(* closed its connection (no try/finally): it stays open, with the locks   *)
(* it holds, until the garbage collector frees it.                         *)

\* the arguments a match of employee 1 with a project can lead to
HistoryCallArgs ==
    { HistoryArgs(1, Head(enhance_projects(
          [skills |-> extract_skills(upload.resume_text)],
          <<[id |-> project_id, title |-> request.title,
             description |-> request.description,
             team_size |-> request.team_size,
             required_skills |-> request.required_skills]>>,
          <<[project_id |-> project_id,
             similarity_score |->
                 SimilarityTable[
                     generate_embedding(EmployeeText(upload.name,
                         extract_skills(upload.resume_text),
                         upload.resume_text)),
                     generate_embedding(ProjectText(request.title,
                         request.required_skills, request.description))]]>>))) :
        upload \in {u \in UploadRequests : u.name = "Ann"},
        project_id \in 1..MaxProjects,
        request \in ProjectRequests }

\* the sequence without its i-th element
Without(seq, i) == SubSeq(seq, 1, i - 1) \o SubSeq(seq, i + 1, Len(seq))

\* the connection of the call holds a SHARED lock: it has fetched one row
\* of a SELECT that has more, and has not yet run another statement on the
\* cursor (a call whose UPDATE or INSERT waits holds no lock)
holds_shared(call) == call.pc = "selected" /\ call.unfinished

\* the connection of the call holds the RESERVED lock: its UPDATE or INSERT
\* has run and is neither committed nor rolled back
holds_reserved(call) == call.pc \in {"written", "committing", "raised"}

\* the connection of the call holds the PENDING lock: conn.commit() waits
\* for the SHARED locks to go, or has given up waiting
holds_pending(call) == call.pc \in {"committing", "raised"}

\* add_match_history up to fetchone(); no SHARED lock is given while a
\* connection holds the PENDING lock
HistorySelect(m) ==
    /\ Len(history_calls) < MaxCallers
    /\ \A j \in 1..Len(history_calls) : ~holds_pending(history_calls[j])
    /\ history_calls' =
         Append(history_calls,
                [args |-> m,
                 existing_match |->
                     select_existing_match(match_history, m.employee_id,
                                           m.project_id),
                 unfinished |->
                     select_unfinished(match_history, m.employee_id,
                                       m.project_id),
                 pc |-> "selected",
                 timestamp |-> 0])
    /\ UNCHANGED <<requests, courses, update_calls, employees, projects, match_history, employees_collection,
                   projects_collection, now, response, last_upsert,
                   embedding_writers, match_generated, index_calls>>

\* add_match_history whose SELECT finds the PENDING lock of another
\* connection until the timeout has passed: it raises, and the call ends
\* with nothing read, written or locked
HistorySelectLocked(m) ==
    /\ Len(history_calls) < MaxCallers
    /\ \E j \in 1..Len(history_calls) : holds_pending(history_calls[j])
    /\ UNCHANGED vars

\* the UPDATE or INSERT of the call has to wait: another connection holds
\* the RESERVED lock
execute_locked(calls, i) ==
    \E j \in 1..Len(calls) : j # i /\ holds_reserved(calls[j])

\* add_match_history from `if existing_match` to the end of its UPDATE or
\* INSERT, at once or after the statement waited: it takes the RESERVED
\* lock and CURRENT_TIMESTAMP.  cursor.execute ends the SELECT of the
\* cursor first
HistoryExecute(i) ==
    /\ i \in 1..Len(history_calls)
    /\ history_calls[i].pc \in {"selected", "executing"}
    /\ ~execute_locked(history_calls, i)
    /\ history_calls' = [history_calls EXCEPT ![i].pc = "written",
                                               ![i].timestamp = now]
    /\ UNCHANGED <<requests, courses, update_calls, employees, projects, match_history, employees_collection,
                   projects_collection, now, response, last_upsert,
                   embedding_writers, match_generated, index_calls>>

\* add_match_history, cursor.execute of the UPDATE or INSERT finds the
\* RESERVED lock with another connection: the SELECT of the cursor is
\* ended, which gives up its SHARED lock, and the statement waits
HistoryExecuteWaits(i) ==
    /\ i \in 1..Len(history_calls)
    /\ history_calls[i].pc = "selected"
    /\ execute_locked(history_calls, i)
    /\ history_calls' = [history_calls EXCEPT ![i].pc = "executing"]
    /\ UNCHANGED <<requests, courses, update_calls, employees, projects, match_history, employees_collection,
                   projects_collection, now, response, last_upsert,
                   embedding_writers, match_generated, index_calls>>

\* add_match_history, the UPDATE or INSERT has waited for the timeout and
\* raises: the call ends with nothing written and no lock held
HistoryExecuteTimeout(i) ==
    /\ i \in 1..Len(history_calls)
    /\ history_calls[i].pc = "executing"
    /\ execute_locked(history_calls, i)
    /\ history_calls' = Without(history_calls, i)
    /\ UNCHANGED <<requests, courses, update_calls, employees, projects, match_history, employees_collection,
                   projects_collection, now, response, last_upsert,
                   embedding_writers, match_generated, index_calls>>

\* conn.commit() has to wait: another connection holds a SHARED lock
commit_locked(calls, i) ==
    \E j \in 1..Len(calls) : j # i /\ holds_shared(calls[j])

\* add_match_history, conn.commit() and conn.close(): no other connection
\* holds a SHARED lock, at once or while the commit waited
HistoryCommit(i) ==
    /\ i \in 1..Len(history_calls)
    /\ history_calls[i].pc \in {"written", "committing"}
    /\ ~commit_locked(history_calls, i)
    /\ match_history' = write_match(match_history,
                                    history_calls[i].existing_match,
                                    history_calls[i].args,
                                    history_calls[i].timestamp)
    /\ history_calls' = Without(history_calls, i)
    /\ UNCHANGED <<requests, courses, update_calls, employees, projects, employees_collection,
                   projects_collection, now, response, last_upsert,
                   embedding_writers, match_generated, index_calls>>

\* add_match_history, conn.commit() finds a SHARED lock of another
\* connection: it takes the PENDING lock and waits
HistoryCommitWaits(i) ==
    /\ i \in 1..Len(history_calls)
    /\ history_calls[i].pc = "written"
    /\ commit_locked(history_calls, i)
    /\ history_calls' = [history_calls EXCEPT ![i].pc = "committing"]
    /\ UNCHANGED <<requests, courses, update_calls, employees, projects, match_history, employees_collection,
                   projects_collection, now, response, last_upsert,
                   embedding_writers, match_generated, index_calls>>

\* add_match_history, conn.commit() has waited for the timeout and raises:
\* the table is as it was, the connection stays open with its locks
HistoryCommitTimeout(i) ==
    /\ i \in 1..Len(history_calls)
    /\ history_calls[i].pc = "committing"
    /\ commit_locked(history_calls, i)
    /\ history_calls' = [history_calls EXCEPT ![i].pc = "raised"]
    /\ UNCHANGED <<requests, courses, update_calls, employees, projects, match_history, employees_collection,
                   projects_collection, now, response, last_upsert,
                   embedding_writers, match_generated, index_calls>>

\* the garbage collector frees the connection of a call that raised in
\* conn.commit(): its transaction is rolled back and its locks go
HistoryCollected(i) ==
    /\ i \in 1..Len(history_calls)
    /\ history_calls[i].pc = "raised"
    /\ history_calls' = Without(history_calls, i)
    /\ UNCHANGED <<requests, courses, update_calls, employees, projects, match_history, employees_collection,
                   projects_collection, now, response, last_upsert,
                   embedding_writers, match_generated, index_calls>>

NextHistory ==
    \/ Tick
    \/ \E m \in HistoryCallArgs : HistorySelect(m)
    \/ \E m \in HistoryCallArgs : HistorySelectLocked(m)
    \/ \E i \in 1..MaxCallers : HistoryExecute(i)
    \/ \E i \in 1..MaxCallers : HistoryExecuteWaits(i)
    \/ \E i \in 1..MaxCallers : HistoryExecuteTimeout(i)
    \/ \E i \in 1..MaxCallers : HistoryCommit(i)
    \/ \E i \in 1..MaxCallers : HistoryCommitWaits(i)
    \/ \E i \in 1..MaxCallers : HistoryCommitTimeout(i)
    \/ \E i \in 1..MaxCallers : HistoryCollected(i)

SpecHistory == Init /\ [][NextHistory]_vars

(* SpecIndex: callers of the VectorStore that run at the same time.  The   *)
(* delete and the add of update_*_embedding are two Chroma calls, and      *)
(* other calls may run in between.                                         *)

Kinds == {"employees", "projects"}
IndexIds == 1..MaxIndexId

CollectionOf(kind) ==
    IF kind = "employees" THEN employees_collection ELSE projects_collection

SetCollection(kind, collection) ==
    IF kind = "employees"
    THEN employees_collection' = collection /\ UNCHANGED projects_collection
    ELSE projects_collection' = collection /\ UNCHANGED employees_collection

IndexRequests(kind) ==
    IF kind = "employees" THEN UploadRequests ELSE ProjectRequests

\* add_employee_embedding / add_project_embedding with the arguments the
\* handlers derive from a request body
IndexAddTo(collection, kind, id, request) ==
    IF kind = "employees"
    THEN add_employee_embedding(collection, id, request.name,
             extract_skills(request.resume_text), request.resume_text,
             generate_embedding(EmployeeText(request.name,
                 extract_skills(request.resume_text), request.resume_text)))
    ELSE add_project_embedding(collection, id, request.title,
             request.required_skills, request.description,
             generate_embedding(ProjectText(request.title,
                 request.required_skills, request.description)))

\* add_employee_embedding / add_project_embedding
IndexAdd(kind, id, request) ==
    /\ SetCollection(kind, IndexAddTo(CollectionOf(kind), kind, id, request))
    /\ UNCHANGED <<requests, courses, update_calls, employees, projects, match_history, now, response,
                   last_upsert, embedding_writers, match_generated,
                   history_calls, index_calls>>

\* update_employee_embedding / update_project_embedding, the delete
IndexUpdateDelete(kind, id, request) ==
    /\ Len(index_calls) < MaxIndexCalls
    /\ SetCollection(kind, CollectionDelete(CollectionOf(kind), id))
    /\ index_calls' =
         Append(index_calls,
                [kind |-> kind, id |-> id, request |-> request,
                 replaces |-> \E k \in 1..Len(CollectionOf(kind)) :
                                  CollectionOf(kind)[k].id = id])
    /\ UNCHANGED <<requests, courses, update_calls, employees, projects, match_history, now, response,
                   last_upsert, embedding_writers, match_generated,
                   history_calls>>

\* update_employee_embedding / update_project_embedding, the add
IndexUpdateAdd(i) ==
    /\ i \in 1..Len(index_calls)
    /\ LET call == index_calls[i]
       IN  SetCollection(call.kind,
                         IndexAddTo(CollectionOf(call.kind), call.kind,
                                    call.id, call.request))
    /\ index_calls' = Without(index_calls, i)
    /\ UNCHANGED <<requests, courses, update_calls, employees, projects, match_history, now, response,
                   last_upsert, embedding_writers, match_generated,
                   history_calls>>

\* the ids of a collection whose entry an update_*_embedding has deleted and
\* not yet added again
Replacing(kind) ==
    { index_calls[i].id : i \in { k \in 1..Len(index_calls) :
                                    /\ index_calls[k].kind = kind
                                    /\ index_calls[k].replaces } }

\* what a caller of find_similar_* got back, and the ids that were being
\* replaced when it asked
IndexResponse(op, top_k, matches, replacing) ==
    [op |-> op, id |-> 0, top_k |-> top_k, status |-> 200,
     matches |-> matches, replacing |-> replacing]

\* find_similar_projects / find_similar_employees
IndexQuery(kind, query_embedding, top_k) ==
    /\ ~QueryRaises(top_k)
    /\ IF kind = "projects"
       THEN \E similar_projects \in
                  find_similar_projects(projects_collection,
                                        query_embedding, top_k) :
              response' = IndexResponse("find_similar_projects", top_k,
                                        similar_projects, Replacing(kind))
       ELSE \E similar_employees \in
                  find_similar_employees(employees_collection,
                                         query_embedding, top_k) :
              response' = IndexResponse("find_similar_employees", top_k,
                                        similar_employees, Replacing(kind))
    /\ UNCHANGED <<requests, courses, update_calls, employees, projects, match_history, employees_collection,
                   projects_collection, now, last_upsert, embedding_writers,
                   match_generated, history_calls, index_calls>>

NextIndex ==
    \/ \E kind \in Kinds, id \in IndexIds :
         \E request \in IndexRequests(kind) : IndexAdd(kind, id, request)
    \/ \E kind \in Kinds, id \in IndexIds :
         \E request \in IndexRequests(kind) : IndexUpdateDelete(kind, id, request)
    \/ \E i \in 1..MaxIndexCalls : IndexUpdateAdd(i)
    \/ \E kind \in Kinds, query_embedding \in RequestEmbeddings,
          top_k \in 1..MaxTopK :
         IndexQuery(kind, query_embedding, top_k)

SpecIndex == Init /\ [][NextIndex]_vars

(* SpecQuery: find_similar_* on collections that hold up to                *)
(* MaxQueryEntries entries, asked for up to MaxTopK + 1 results            *)

\* the entries add_*_embedding makes of the request bodies
QueryEntries(kind) ==
    { IndexAddTo(<<>>, kind, id, request)[1] :
        id \in 1..MaxQueryEntries, request \in IndexRequests(kind) }

\* the collections of up to MaxQueryEntries entries, one entry per id
QueryCollections(kind) ==
    { collection \in UNION { [1..n -> QueryEntries(kind)] :
                               n \in 0..MaxQueryEntries } :
        \A i, j \in 1..Len(collection) :
            collection[i].id = collection[j].id => i = j }

InitQuery ==
    /\ employees = <<>>
    /\ projects = <<>>
    /\ match_history = <<>>
    /\ employees_collection \in QueryCollections("employees")
    /\ projects_collection \in QueryCollections("projects")
    /\ now = 0
    /\ response = Response("startup", 0, 0, 200, <<>>)
    /\ last_upsert = <<>>
    /\ embedding_writers = {}
    /\ match_generated = [e \in Entities |-> NotGenerated]
    /\ history_calls = <<>>
    /\ index_calls = <<>>
    /\ courses = <<>>
    /\ update_calls = <<>>
    /\ requests = 0

NextQuery ==
    \E kind \in Kinds, query_embedding \in RequestEmbeddings,
       top_k \in 1..(MaxTopK + 1) :
      IndexQuery(kind, query_embedding, top_k)

SpecQuery == InitQuery /\ [][NextQuery]_vars

(* SpecCalls: single calls of the functions that keep no state.  A call is *)
(* a record of the function and its arguments, with status 0 until the     *)
(* function has returned and status 200 and the result after.              *)

Call(op, args) == [op |-> op, args |-> args, status |-> 0]

Return(call, result) ==
    [op |-> call.op, args |-> call.args, status |-> 200, result |-> result]

\* the sequences over a set of at most n elements
SeqsUpTo(S, n) == UNION { [1..k -> S] : k \in 0..n }

CandidateSkills == {"go", "java", "python", "react", "JavaScript"}
RequiredSkills == {"go", "Go", "java", "JavaScript", "python", "django", "docker"}

GapCalls ==
    { Call("find_skill_gaps", <<employee_skills, required_skills>>) :
        employee_skills \in SeqsUpTo(CandidateSkills, MaxCandidateSkills),
        required_skills \in SeqsUpTo(RequiredSkills, MaxRequiredSkills) }

\* the stores and the index hold nothing and no call is under way
NothingStored ==
    /\ employees = <<>>
    /\ projects = <<>>
    /\ match_history = <<>>
    /\ employees_collection = <<>>
    /\ projects_collection = <<>>
    /\ now = 0
    /\ last_upsert = <<>>
    /\ embedding_writers = {}
    /\ match_generated = [e \in Entities |-> NotGenerated]
    /\ history_calls = <<>>
    /\ index_calls = <<>>
    /\ courses = <<>>
    /\ update_calls = <<>>
    /\ requests = 0

CategorizedSkills ==
    {"Python", "React", "docker", "aws", "swift", "nlp", "excel", "mongodb",
     "sql"}

CategorizeCalls ==
    { Call("categorize_skills", <<skills>>) :
        skills \in SeqsUpTo(CategorizedSkills, MaxCategorizedSkills) }

\* scores of two decimals between 0.00 and 100.00, in hundredths
ScoreSamples == {0, 1, 2, 3, 4, 5, 3333, 5000, 6667, 9999, 10000}

ScoreCalls ==
    { Call("calculate_overall_score", <<similarity, skill_match_percentage>>) :
        similarity \in ScoreSamples, skill_match_percentage \in ScoreSamples }

EmbeddedTexts ==
    {"", "g", "Ann Skills: go Resume: go dev",
     "Ann Skills: react Resume: react dev", "Bob Skills: java Resume: java",
     "Api Required Skills: go, sql Description: backend",
     "Web Required Skills: JavaScript Description: frontend",
     "Ops Required Skills:  Description: tbd"}

EmbeddingCalls ==
    { Call("generate_embedding", <<text>>) : text \in EmbeddedTexts }

\* the hex pairs text_hash[i:i+2] can be
HexPairCalls ==
    { Call("hex_pair", <<HexDigits[hi], HexDigits[lo]>>) :
        hi \in 1..Len(HexDigits), lo \in 1..Len(HexDigits) }

\* the skill_tags of the courses of the catalogs
CourseTags ==
    {<<"docker", "kubernetes">>, <<"python", "docker">>, <<"react">>, <<>>}

\* a row of table courses as get_all_courses and _get_recommended_courses
\* hand it on
Course(id, skill_tags) ==
    [id |-> id, title |-> Join(" ", skill_tags), skill_tags |-> skill_tags,
     provider |-> "in-house", url |-> "", description |-> ""]

\* catalogs: the rows 1..n of table courses
Catalogs ==
    { [id \in 1..Len(tags) |-> Course(id, tags[id])] :
        tags \in SeqsUpTo(CourseTags, MaxCourses) }

MissingSkills == {"docker", "Python", "react"}

RecommendCalls ==
    { Call("recommend_courses", <<missing_skills, available_courses>>) :
        missing_skills \in SeqsUpTo(MissingSkills, MaxMissingSkills),
        available_courses \in Catalogs }

\* required_skills of the projects of the tables of GrowthCalls; against
\* the skills python and react they match by 50, 66.67, 33.33, 100 and 40
GrowthRequirements ==
    {<<"python", "docker">>, <<"python", "react", "docker">>,
     <<"python", "docker", "aws">>, <<"python">>,
     <<"python", "react", "docker", "aws", "swift">>}

\* the tables projects that get_all_projects may return
GrowthTables ==
    { [id \in 1..Len(required) |->
          [title |-> Join(" ", required[id]), required_skills |-> required[id],
           team_size |-> 1, description |-> "",
           embedding_vector |-> NullEmbedding]] :
        required \in SeqsUpTo(GrowthRequirements, MaxGrowthProjects) }

CurrentSkills == {<<"python", "react">>, <<"python">>, <<>>}

GrowthCalls ==
    { Call("find_next_level_projects", <<current_skills, all_projects>>) :
        current_skills \in CurrentSkills, all_projects \in GrowthTables }

\* n times the skill
Repeat(skill, n) == [i \in 1..n |-> skill]

\* skill lists of up to MaxCategoryCount skills of each of programming,
\* web_development, data_science and cloud_devops
CareerSkills ==
    { Repeat("Python", a) \o Repeat("React", b) \o Repeat("sql", c)
        \o Repeat("aws", d) :
        a \in 0..MaxCategoryCount, b \in 0..MaxCategoryCount,
        c \in 0..MaxCategoryCount, d \in 0..MaxCategoryCount }

\* get_career_path_suggestions passes categorize_skills(employee.skills)
CareerCalls ==
    { Call("suggest_career_trajectory", <<categorize_skills(skills)>>) :
        skills \in CareerSkills }

InitCalls ==
    /\ NothingStored
    /\ \/ response \in GapCalls
       \/ response \in CategorizeCalls
       \/ response \in ScoreCalls
       \/ response \in EmbeddingCalls
       \/ response \in HexPairCalls
       \/ response \in RecommendCalls
       \/ response \in GrowthCalls
       \/ response \in CareerCalls

\* the function of a call returns
Returns(op, result) ==
    /\ response.op = op
    /\ response.status = 0
    /\ response' = Return(response, result)
    /\ UNCHANGED <<requests, courses, update_calls, employees, projects, match_history, employees_collection,
                   projects_collection, now, last_upsert, embedding_writers,
                   match_generated, history_calls, index_calls>>

FindSkillGapsCall ==
    Returns("find_skill_gaps",
            find_skill_gaps(response.args[1], response.args[2]))

CategorizeSkillsCall ==
    Returns("categorize_skills", categorize_skills(response.args[1]))

OverallScoreCall ==
    Returns("calculate_overall_score",
            calculate_overall_score(response.args[1], response.args[2]))

GenerateEmbeddingCall ==
    Returns("generate_embedding", generate_embedding(response.args[1]))

\* one turn of the loop of generate_embedding: val of a hex pair
HexPairCall ==
    Returns("hex_pair", HexPairValue(response.args[1], response.args[2]))

RecommendCoursesCall ==
    Returns("recommend_courses",
            recommend_courses(response.args[1], response.args[2]))

FindNextLevelProjectsCall ==
    Returns("find_next_level_projects",
            find_next_level_projects(response.args[1], response.args[2]))

SuggestCareerTrajectoryCall ==
    Returns("suggest_career_trajectory",
            suggest_career_trajectory(response.args[1]))

NextCalls ==
    \/ FindSkillGapsCall
    \/ CategorizeSkillsCall
    \/ OverallScoreCall
    \/ GenerateEmbeddingCall
    \/ HexPairCall
    \/ RecommendCoursesCall
    \/ FindNextLevelProjectsCall
    \/ SuggestCareerTrajectoryCall

SpecCalls == InitCalls /\ [][NextCalls]_vars

(* SpecEmbedding: the requests of SpecCrash, which store the embeddings    *)
(* they generate, beside generate_embedding called on a text.              *)

InitEmbedding ==
    /\ NothingStored
    /\ \/ response = Response("startup", 0, 0, 200, <<>>)
       \/ response \in EmbeddingCalls

NextEmbedding ==
    \/ NextCrash
    \/ GenerateEmbeddingCall

SpecEmbedding == InitEmbedding /\ [][NextEmbedding]_vars

(* SpecAdvice: the advisory requests skill_gap, career_path and employee   *)
(* profile, with add_course, add_project and update_project for a project  *)
(* that does not exist, one after another, for an employee uploaded        *)
(* before.  A request may also find the SQLite file unreachable.  *)

\* the employees of SpecAdvice: after upload_resume for each of them
UploadedEmployee(request) ==
    [name |-> request.name,
     skills |-> extract_skills(request.resume_text),
     preferences |-> request.preferences,
     resume_text |-> request.resume_text,
     embedding_vector |-> NullEmbedding]

UploadedEmbedding(request) ==
    generate_embedding(EmployeeText(request.name,
                                    extract_skills(request.resume_text),
                                    request.resume_text))

\* the store after upload_resume for Ann and then for Bob
TwoEmployeesUploaded ==
    LET ann == CHOOSE request \in UploadRequests : request.name = "Ann"
        bob == CHOOSE request \in UploadRequests : request.name = "Bob"
        first == db_update_embedding(
                     add_employee(<<>>, UploadedEmployee(ann)), 1,
                     UploadedEmbedding(ann))
        second == db_update_embedding(
                      add_employee(first, UploadedEmployee(bob)), 2,
                      UploadedEmbedding(bob))
    IN  /\ employees = second
        /\ employees_collection =
             add_employee_embedding(
                 add_employee_embedding(<<>>, 1, ann.name,
                     extract_skills(ann.resume_text), ann.resume_text,
                     UploadedEmbedding(ann)),
                 2, bob.name, extract_skills(bob.resume_text),
                 bob.resume_text, UploadedEmbedding(bob))
        /\ projects = <<>>
        /\ match_history = <<>>
        /\ projects_collection = <<>>
        /\ now = 0
        /\ response = Response("upload_resume", 2, 0, 200, <<>>)
        /\ last_upsert = <<>>
        /\ embedding_writers = {"main"}
        /\ match_generated = [e \in Entities |-> NotGenerated]
        /\ history_calls = <<>>
        /\ index_calls = <<>>
        /\ courses = <<>>
        /\ update_calls = <<>>
        /\ requests = 0

\* the store after upload_resume for Ann
InitAdvice ==
    LET ann == CHOOSE request \in UploadRequests : request.name = "Ann"
    IN  /\ employees = db_update_embedding(
                           add_employee(<<>>, UploadedEmployee(ann)), 1,
                           UploadedEmbedding(ann))
        /\ employees_collection =
             add_employee_embedding(<<>>, 1, ann.name,
                 extract_skills(ann.resume_text), ann.resume_text,
                 UploadedEmbedding(ann))
        /\ projects = <<>>
        /\ match_history = <<>>
        /\ projects_collection = <<>>
        /\ now = 0
        /\ response = Response("upload_resume", 1, 0, 200, <<>>)
        /\ last_upsert = <<>>
        /\ embedding_writers = {"main"}
        /\ match_generated = [e \in Entities |-> NotGenerated]
        /\ history_calls = <<>>
        /\ index_calls = <<>>
        /\ courses = <<>>
        /\ update_calls = <<>>
        /\ requests = 0

\* the ids of the requests of SpecAdvice: the employee and one more,
\* the projects and one more
AdviceEmployeeIds == 1..(MaxEmployees + 1)
AdviceProjectIds == {NoProject} \cup 0..(MaxProjects + 1)

NextAdvice ==
    \/ \E request \in ProjectRequests : AddProject(request)
    \/ \E project_id \in ProjectIds, request \in ProjectRequests :
         UpdateProjectMissing(project_id, request)
    \/ \E request \in CourseRequests : AddCourse(request)
    \/ \E employee_id \in AdviceEmployeeIds, project_id \in AdviceProjectIds :
         SkillGap(employee_id, project_id)
    \/ \E employee_id \in AdviceEmployeeIds : CareerPath(employee_id)
    \/ \E employee_id \in AdviceEmployeeIds : CareerPathMissing(employee_id)
    \/ \E employee_id \in AdviceEmployeeIds : EmployeeProfile(employee_id)
    \/ \E op \in DOMAIN NotFoundHandlers, id \in AdviceEmployeeIds :
         StoreUnreachable(op, id)

SpecAdvice == InitAdvice /\ [][NextAdvice]_vars

\* the request just answered found the record store unreachable
StoreFailed == "returned" \in DOMAIN response /\ response.returned = Raised

\* the request just answered was a skill_gap request that reached
\* analyze_skill_gaps
SkillGapAnswered == response.op = "skill_gap" /\ ~StoreFailed

\* C24: a skill_gap request for an employee id that does not exist, for
\* which analyze_skill_gaps returns its empty result, is answered as not
\* found (status 404), not as a generic failure.
C24_AbsentEmployeeNotFound ==
    (SkillGapAnswered /\ response.returned = EmptyDict)
        => response.status = 404

\* C30: for an employee that exists, analyze_skill_gaps returns a report
\* with a skill_gap_analysis whatever project_id is passed, and the
\* request is not answered with "Employee not found".
C30_ExistingEmployeeGetsReport ==
    (SkillGapAnswered /\ HasRow(employees, response.id))
        => /\ response.returned.value = "dict"
           /\ response.status = 200
           /\ response.detail = ""

\* the request just answered named an employee or a project that does not
\* exist, and the record store answered
EntityAbsent ==
    /\ ~StoreFailed
    /\ \/ response.op = "update_project" /\ ~HasRow(projects, response.id)
       \/ /\ response.op \in {"skill_gap", "career_path", "employee_profile"}
          /\ ~HasRow(employees, response.id)
       \/ /\ response.op = "skill_gap"
          /\ response.project_id \notin {NoProject, 0}
          /\ ~HasRow(projects, response.project_id)

\* C27: a request whose entity or project is absent ends with the not
\* found status 404, a request that found the store unreachable ends with
\* the infrastructure status 500, so the two are never the same.
C27_NotFoundDistinctFromFailure ==
    /\ EntityAbsent => response.status = 404
    /\ StoreFailed => response.status = 500

---------------------------------------------------------------------------
(* SpecOwner: the requests that write tables, one after another, starting  *)
(* from the empty store or from the store with two employees uploaded,     *)
(* with at most MaxOwnerProjects projects.                                 *)

MaxOwnerProjects == 1

InitOwner == Init \/ TwoEmployeesUploaded

\* the project_id values of the skill_gap requests of SpecOwner
OwnerProjectIds == {NoProject} \cup 1..MaxOwnerProjects

NextOwner ==
    \/ \E request \in UploadRequests : UploadResume(request)
    \/ \E request \in ProjectRequests :
         Len(projects) < MaxOwnerProjects /\ AddProject(request)
    \/ \E project_id \in ProjectIds, request \in ProjectRequests :
         UpdateProject(project_id, request)
    \/ \E request \in CourseRequests : AddCourse(request)
    \/ \E employee_id \in EmployeeIds, project_id \in OwnerProjectIds :
         SkillGap(employee_id, project_id)
    \/ \E employee_id \in EmployeeIds : MatchProjects(employee_id, MaxTopK)
    \/ \E employee_id \in EmployeeIds : CareerPath(employee_id)

SpecOwner == InitOwner /\ [][NextOwner]_vars

\* the handlers the claim names as leaving match_history alone
NonWriters ==
    {"upload_resume", "add_project", "update_project", "add_course",
     "skill_gap"}

\* the handlers that run match_employee_to_projects
MatchWriters == {"match_projects", "career_path"}

\* the rows of match_history that belong to other employees than e
RowsOfOthers(rows, e) ==
    { rows[i] : i \in { j \in 1..Len(rows) : rows[j].employee_id # e } }

\* C28: upload_resume, add_project, update_project, add_course and
\* skill_gap leave match_history unchanged, and a request that matches
\* employee e to projects changes only rows whose employee_id is e.
C28_OnlyOrchestratorWrites ==
    [][/\ response'.op \in NonWriters => match_history' = match_history
       /\ response'.op \in MatchWriters =>
            RowsOfOthers(match_history', response'.id)
              = RowsOfOthers(match_history, response'.id)]_vars

\* a match for employee 2 was stored while employee 1 had rows
C28_MatchBesideOtherRows ==
    /\ response.op = "match_projects"
    /\ response.id = 2
    /\ response.status = 200
    /\ \E i \in 1..Len(match_history) : match_history[i].employee_id = 1
    /\ \E i \in 1..Len(match_history) : match_history[i].employee_id = 2

---------------------------------------------------------------------------
(* SpecUpdate: update_project and match_employees requests served at the   *)
(* same time (section 5 of the specification: concurrent requests may      *)
(* execute in parallel against the shared record store and index; with the *)
(* one event loop of uvicorn.run(app) that takes a second worker process   *)
(* on the same talent_matching.db and chroma_db).  Each request is the     *)
(* calls it makes of the record store and of the index, one step a call,   *)
(* each on its own connection or committed on its own: for update_project  *)
(* get_project, update_project, update_project_embedding and, in           *)
(* VectorStore.update_project_embedding, the delete and the add; for       *)
(* match_employees get_all_projects, the search of the index and one       *)
(* get_employee for each employee found.                                   *)

MaxUpdateCalls == 1

\* the store after upload_resume for Ann and add_project for Api have
\* returned
InitUpdate ==
    LET ann == CHOOSE request \in UploadRequests : request.name = "Ann"
        api == CHOOSE request \in ProjectRequests : request.title = "Api"
        embedding == generate_embedding(
                         ProjectText(api.title, api.required_skills,
                                     api.description))
    IN  /\ employees = db_update_embedding(
                           add_employee(<<>>, UploadedEmployee(ann)), 1,
                           UploadedEmbedding(ann))
        /\ employees_collection =
             add_employee_embedding(<<>>, 1, ann.name,
                 extract_skills(ann.resume_text), ann.resume_text,
                 UploadedEmbedding(ann))
        /\ projects = db_update_embedding(
                          add_project(<<>>,
                              [title |-> api.title,
                               required_skills |-> api.required_skills,
                               team_size |-> api.team_size,
                               description |-> api.description,
                               embedding_vector |-> NullEmbedding]),
                          1, embedding)
        /\ projects_collection =
             add_project_embedding(<<>>, 1, api.title, api.required_skills,
                                   api.description, embedding)
        /\ match_history = <<>>
        /\ now = 0
        /\ response = Response("add_project", 1, 0, 200, <<>>)
        /\ last_upsert = <<>>
        /\ embedding_writers = {"main"}
        /\ match_generated = [e \in Entities |-> NotGenerated]
        /\ history_calls = <<>>
        /\ index_calls = <<>>
        /\ courses = <<>>
        /\ update_calls = <<>>
        /\ requests = 0

\* the requests of a handler that are in flight
InFlight(op) == { i \in 1..Len(update_calls) : update_calls[i].op = op }

\* update_project up to db_manager.get_project, for a project that exists
UpdateProjectGet(project_id, request) ==
    /\ Served
    /\ Cardinality(InFlight("update_project")) < MaxUpdateCalls
    /\ HasRow(projects, project_id)
    /\ update_calls' = Append(update_calls,
                              [op |-> "update_project",
                               project_id |-> project_id, request |-> request,
                               pc |-> "update_project"])
    /\ UNCHANGED <<courses, employees, projects, match_history,
                   employees_collection, projects_collection, now, response,
                   last_upsert, embedding_writers, match_generated,
                   history_calls, index_calls>>

\* update_project, db_manager.update_project to its commit
UpdateProjectRow(i) ==
    /\ i \in InFlight("update_project")
    /\ update_calls[i].pc = "update_project"
    /\ projects' = db_update_project(projects, update_calls[i].project_id,
                                     update_calls[i].request)
    /\ update_calls' = [update_calls EXCEPT ![i].pc = "generate_embedding"]
    /\ UNCHANGED <<requests, courses, employees, match_history,
                   employees_collection, projects_collection, now, response,
                   last_upsert, embedding_writers, match_generated,
                   history_calls, index_calls>>

\* the embedding the handler generates from its request
UpdateEmbedding(call) ==
    generate_embedding(ProjectText(call.request.title,
                                   call.request.required_skills,
                                   call.request.description))

\* update_project from generate_embedding to the commit of
\* db_manager.update_project_embedding
UpdateProjectEmbedding(i) ==
    /\ i \in InFlight("update_project")
    /\ update_calls[i].pc = "generate_embedding"
    /\ projects' = db_update_embedding(projects, update_calls[i].project_id,
                                       UpdateEmbedding(update_calls[i]))
    /\ update_calls' = [update_calls EXCEPT ![i].pc = "delete"]
    /\ embedding_writers' = embedding_writers \cup {"main"}
    /\ match_generated' =
         [match_generated EXCEPT
              ![<<"project", update_calls[i].project_id>>] = NotGenerated]
    /\ UNCHANGED <<requests, courses, employees, match_history,
                   employees_collection, projects_collection, now, response,
                   last_upsert, history_calls, index_calls>>

\* update_project in vector_store.update_project_embedding: the delete of
\* the entry of the id
UpdateProjectIndexDelete(i) ==
    /\ i \in InFlight("update_project")
    /\ update_calls[i].pc = "delete"
    /\ projects_collection' =
         CollectionDelete(projects_collection, update_calls[i].project_id)
    /\ update_calls' = [update_calls EXCEPT ![i].pc = "add_project_embedding"]
    /\ UNCHANGED <<requests, courses, employees, projects, match_history,
                   employees_collection, now, response, last_upsert,
                   embedding_writers, match_generated, history_calls,
                   index_calls>>

\* update_project from add_project_embedding in
\* vector_store.update_project_embedding to the reply
UpdateProjectIndexAdd(i) ==
    /\ i \in InFlight("update_project")
    /\ update_calls[i].pc = "add_project_embedding"
    /\ LET call == update_calls[i]
       IN  /\ projects_collection' =
                add_project_embedding(projects_collection, call.project_id,
                    call.request.title, call.request.required_skills,
                    call.request.description, UpdateEmbedding(call))
           /\ response' = Response("update_project", call.project_id, 0, 200,
                                   <<>>)
    /\ update_calls' = Without(update_calls, i)
    /\ UNCHANGED <<requests, courses, employees, projects, match_history,
                   employees_collection, now, last_upsert, embedding_writers,
                   match_generated, history_calls, index_calls>>

\* match_employees up to the choice of project_embedding: get_all_projects
\* reads the row, and the row has an embedding (every row of SpecUpdate has
\* one), so that nothing is written
MatchEmployeesRead(project_id, top_k) ==
    /\ Served
    /\ Cardinality(InFlight("match_employees")) < MaxUpdateCalls
    /\ HasRow(projects, project_id)
    /\ projects[project_id].embedding_vector # NullEmbedding
    /\ update_calls' = Append(update_calls,
                              [op |-> "match_employees",
                               project_id |-> project_id, top_k |-> top_k,
                               project |-> projects[project_id],
                               pc |-> "find_similar_employees"])
    /\ UNCHANGED <<courses, employees, projects, match_history,
                   employees_collection, projects_collection, now, response,
                   last_upsert, embedding_writers, match_generated,
                   history_calls, index_calls>>

\* match_employees, vector_store.find_similar_employees with the embedding
\* of the project row it has read; a query that raises is answered 500
MatchEmployeesQuery(i) ==
    /\ i \in InFlight("match_employees")
    /\ update_calls[i].pc = "find_similar_employees"
    /\ LET call == update_calls[i]
       IN  IF QueryRaises(call.top_k)
           THEN /\ response' = Response("match_employees", call.project_id,
                                        call.top_k, 500, <<>>)
                /\ update_calls' = Without(update_calls, i)
           ELSE /\ \E similar_employees \in
                        find_similar_employees(employees_collection,
                            call.project.embedding_vector, call.top_k) :
                      update_calls' =
                          [update_calls EXCEPT ![i] =
                              [op |-> "match_employees",
                               project_id |-> call.project_id,
                               top_k |-> call.top_k,
                               project |-> call.project,
                               similar_employees |-> similar_employees,
                               enhanced_matches |-> <<>>,
                               pc |-> "get_employee"]]
                /\ UNCHANGED response
    /\ UNCHANGED <<requests, courses, employees, projects, match_history,
                   employees_collection, projects_collection, now,
                   last_upsert, embedding_writers, match_generated,
                   history_calls, index_calls>>

\* match_employees, one turn of the loop over similar_employees:
\* db.get_employee and, for an employee that exists, the enhanced match
MatchEmployeesGet(i) ==
    /\ i \in InFlight("match_employees")
    /\ update_calls[i].pc = "get_employee"
    /\ update_calls[i].similar_employees # <<>>
    /\ update_calls' =
         [update_calls EXCEPT
              ![i].enhanced_matches =
                  @ \o enhance_employees(update_calls[i].project, employees,
                           <<Head(update_calls[i].similar_employees)>>),
              ![i].similar_employees = Tail(@)]
    /\ UNCHANGED <<requests, courses, employees, projects, match_history,
                   employees_collection, projects_collection, now, response,
                   last_upsert, embedding_writers, match_generated,
                   history_calls, index_calls>>

\* match_employees from the sort by overall_score to the reply
MatchEmployeesReply(i) ==
    /\ i \in InFlight("match_employees")
    /\ update_calls[i].pc = "get_employee"
    /\ update_calls[i].similar_employees = <<>>
    /\ response' = Response("match_employees", update_calls[i].project_id,
                            update_calls[i].top_k, 200,
                            sort_by_overall_score(
                                update_calls[i].enhanced_matches))
    /\ update_calls' = Without(update_calls, i)
    /\ UNCHANGED <<requests, courses, employees, projects, match_history,
                   employees_collection, projects_collection, now,
                   last_upsert, embedding_writers, match_generated,
                   history_calls, index_calls>>

\* the places of update_calls
UpdateCallIds == 1..(2 * MaxUpdateCalls)

NextUpdate ==
    \/ \E project_id \in ProjectIds, request \in ProjectRequests :
         UpdateProjectGet(project_id, request)
    \/ \E i \in UpdateCallIds : UpdateProjectRow(i)
    \/ \E project_id \in ProjectIds, request \in ProjectRequests :
         UpdateProjectMissing(project_id, request)
    \/ \E i \in UpdateCallIds : UpdateProjectEmbedding(i)
    \/ \E i \in UpdateCallIds : UpdateProjectIndexDelete(i)
    \/ \E i \in UpdateCallIds : UpdateProjectIndexAdd(i)
    \/ \E project_id \in ProjectIds, top_k \in TopKs :
         MatchEmployeesRead(project_id, top_k)
    \/ \E project_id \in ProjectIds, top_k \in TopKs :
         MatchEmployeesMissing(project_id, top_k)
    \/ \E i \in UpdateCallIds : MatchEmployeesQuery(i)
    \/ \E i \in UpdateCallIds : MatchEmployeesGet(i)
    \/ \E i \in UpdateCallIds : MatchEmployeesReply(i)

SpecUpdate == InitUpdate /\ [][NextUpdate]_vars

\* the embedding of the canonical text of a project row
RowEmbedding(project) ==
    generate_embedding(ProjectText(project.title, project.required_skills,
                                   project.description))

\* the row and the index entry of the project are those of one snapshot:
\* both embeddings are the embedding of the row's text, and the only index
\* entry of the id is the one update_project_embedding makes of the row
OneSnapshot(project_id) ==
    LET project == projects[project_id]
        entries == { i \in 1..Len(projects_collection) :
                       projects_collection[i].id = project_id }
    IN  /\ project.embedding_vector = RowEmbedding(project)
        /\ Cardinality(entries) = 1
        /\ \A i \in entries :
              <<projects_collection[i]>> =
                  add_project_embedding(<<>>, project_id, project.title,
                      project.required_skills, project.description,
                      RowEmbedding(project))

\* update_project has returned 200 for a project, and no later
\* update_project of the project has begun
UpdateCompleted ==
    /\ response.op = "update_project"
    /\ response.status = 200
    /\ HasRow(projects, response.id)
    /\ \A i \in InFlight("update_project") :
          update_calls[i].project_id # response.id

\* the project row a match_employees request in flight has read has the
\* embedding of its text
MatchReadsProject ==
    \A i \in InFlight("match_employees") :
       update_calls[i].project.embedding_vector
         = RowEmbedding(update_calls[i].project)

\* C29: after update_project completes, the stored embedding and the index
\* entry of the project are those of its updated text, and no
\* match_employees request running beside an update reads a project row
\* whose embedding is not the embedding of the row's text.
C29_UpdateReadAsOneSnapshot ==
    /\ UpdateCompleted => OneSnapshot(response.id)
    /\ MatchReadsProject

\* the first half of C29 alone
UpdateCompletedConsistent == UpdateCompleted => OneSnapshot(response.id)

---------------------------------------------------------------------------
(* Properties of the match history and of the returned lists, under Spec *)

MatchOps == {"match_projects", "match_employees"}

\* the response of a match request that ran to its return
Returned(op) == response.op = op /\ response.status = 200

\* the match_history row agrees with an enriched match on the three scores
SameScores(row, similarity, skill_match_percentage, overall_score) ==
    /\ row.match_score = similarity
    /\ row.skill_match_percentage = skill_match_percentage
    /\ row.overall_score = overall_score

\* C1: after any sequence of add_match_history calls run one after another,
\* match_history has at most one row per (employee_id, project_id), every
\* row belongs to a pair a call was made for, and the row of a pair holds
\* the scores, the skill lists and the timestamp of the latest call for it.
C1_UpsertKeepsLatest ==
    /\ \A i, j \in 1..Len(match_history) :
         (/\ match_history[i].employee_id = match_history[j].employee_id
          /\ match_history[i].project_id = match_history[j].project_id)
         => i = j
    /\ \A i \in 1..Len(match_history) :
         <<match_history[i].employee_id, match_history[i].project_id>>
             \in DOMAIN last_upsert
    /\ \A pair \in DOMAIN last_upsert :
         LET rows == PairRows(match_history, pair[1], pair[2])
             call == last_upsert[pair]
         IN  /\ Len(rows) = 1
             /\ SameScores(rows[1], call.args.match_score,
                           call.args.skill_match_percentage,
                           call.args.overall_score)
             /\ rows[1].missing_skills = call.args.missing_skills
             /\ rows[1].matched_skills = call.args.matched_skills
             /\ rows[1].timestamp = call.timestamp

\* a pair was computed twice, the second time later and with another
\* similarity score, and has its row
C1_Recomputed ==
    \E pair \in DOMAIN last_upsert :
        /\ last_upsert[pair].overwrote
        /\ PairRows(match_history, pair[1], pair[2]) # <<>>

\* C2: when match_employee_to_projects or match_project_to_employees
\* returns, every enriched match of the returned list has a match_history
\* row for its (employee_id, project_id) with that match's similarity score,
\* skill-match percentage and overall score.
C2_ReturnedMatchesPersisted ==
    /\ Returned("match_projects") =>
         \A i \in 1..Len(response.matches) :
            LET m == response.matches[i]
            IN  \E k \in 1..Len(match_history) :
                   /\ match_history[k].employee_id = response.id
                   /\ match_history[k].project_id = m.project_id
                   /\ SameScores(match_history[k], m.similarity_score,
                                 m.skill_match_percentage, m.overall_score)
    /\ Returned("match_employees") =>
         \A i \in 1..Len(response.matches) :
            LET m == response.matches[i]
            IN  \E k \in 1..Len(match_history) :
                   /\ match_history[k].employee_id = m.employee_id
                   /\ match_history[k].project_id = response.id
                   /\ SameScores(match_history[k], m.similarity_score,
                                 m.skill_match_percentage, m.overall_score)

\* the entity a match response is about is in the record store
Present(op, id) ==
    IF op = "match_projects" THEN HasRow(employees, id) ELSE HasRow(projects, id)

\* C9: a match request for an id absent from the record store does not end
\* like a successful match that found no candidate (status 200, empty list).
\* That it writes nothing is the UNCHANGED of MatchProjectsMissing and
\* MatchEmployeesMissing.
C9_AbsentIsNotFound ==
    (response.op \in MatchOps /\ ~Present(response.op, response.id))
    => ~(response.status = 200 /\ response.matches = <<>>)

\* C10: the list a match request returns is in non-increasing order of
\* overall_score, has at most top_k entries, and names no candidate twice.
C10_SortedBoundedDistinct ==
    /\ response.op \in MatchOps /\ response.status = 200 =>
         /\ \A i, j \in 1..Len(response.matches) :
              i < j => response.matches[i].overall_score
                         >= response.matches[j].overall_score
         /\ Present(response.op, response.id) =>
              Len(response.matches) <= response.top_k
    /\ Returned("match_projects") =>
         \A i, j \in 1..Len(response.matches) :
            i # j => response.matches[i].project_id
                       # response.matches[j].project_id
    /\ Returned("match_employees") =>
         \A i, j \in 1..Len(response.matches) :
            i # j => response.matches[i].employee_id
                       # response.matches[j].employee_id

\* a returned list of two projects that the sort put in another order than
\* the query did
C10_Reordered ==
    /\ Returned("match_projects")
    /\ response.top_k = 2
    /\ Len(response.matches) = 2
    /\ response.matches[1].similarity_score < response.matches[2].similarity_score
    /\ response.matches[1].overall_score > response.matches[2].overall_score

---------------------------------------------------------------------------
(* Properties of the embeddings in the record store and in the index *)

\* the entries of a collection for one id
EntriesOf(collection, id) == SelectSeq(collection, LAMBDA e : e.id = id)

\* every row with a cached embedding has an index entry with that vector
Indexed(rows, collection) ==
    \A i \in 1..Len(rows) :
        rows[i].embedding_vector # NullEmbedding =>
            \E k \in 1..Len(collection) :
                /\ collection[k].id = rows[i].id
                /\ collection[k].embedding = rows[i].embedding_vector

\* the operations C5 names
CompletedOps == {"upload_resume", "add_project", "update_project",
                 "match_projects", "match_employees"}

\* C5: after every completed operation every employee and project whose
\* record has a cached embedding has an index entry in its collection with
\* the same vector, and only the match orchestrator has written embeddings
\* to the store or the index.
C5_ConsistentSoleWriter ==
    (response.status = 200 /\ response.op \in CompletedOps) =>
        /\ Indexed(employees, employees_collection)
        /\ Indexed(projects, projects_collection)
        /\ embedding_writers \subseteq {"match"}

\* C6: once a match request that read the record of an entity has returned,
\* the entity has an index entry, also when a crash had left its record
\* with an embedding and the index without an entry.
C6_MatchRepairsIndex ==
    /\ (Returned("match_projects") /\ HasRow(employees, response.id)) =>
          EntriesOf(employees_collection, response.id) # <<>>
    /\ (Returned("match_employees") /\ HasRow(projects, response.id)) =>
          EntriesOf(projects_collection, response.id) # <<>>

\* a step of a match request for an entity whose record has a cached
\* embedding
MatchStepCached(op, rows) ==
    /\ response'.op = op
    /\ HasRow(rows, response'.id)
    /\ rows[response'.id].embedding_vector # NullEmbedding

\* a match request for an entity whose record has a cached embedding
\* generates no embedding and leaves the record's embedding and the entity's
\* index entry as they were
CachedEmbeddingReused ==
    [][/\ MatchStepCached("match_projects", employees) =>
            /\ employees' = employees
            /\ EntriesOf(employees_collection', response'.id)
                 = EntriesOf(employees_collection, response'.id)
            /\ match_generated'[<<"employee", response'.id>>].generated
                 = match_generated[<<"employee", response'.id>>].generated
       /\ MatchStepCached("match_employees", projects) =>
            /\ projects' = projects
            /\ EntriesOf(projects_collection', response'.id)
                 = EntriesOf(projects_collection, response'.id)
            /\ match_generated'[<<"project", response'.id>>].generated
                 = match_generated[<<"project", response'.id>>].generated
      ]_vars

\* C8 as claimed: a match request for an entity whose record has a cached
\* embedding does not generate an embedding and leaves the record's
\* embedding and the entity's index entry as they were; between two writes
\* of an entity by a handler the match requests generate its embedding at
\* most once.
C8_LazyMemoizingEmbedding ==
    /\ [](\A e \in Entities : match_generated[e].generated <= 1)
    /\ CachedEmbeddingReused

\* C8 (amended): a match request for an entity whose record has a cached
\* embedding does not generate an embedding and leaves the record's
\* embedding and the entity's index entry as they were; between two writes
\* of an entity by a handler the match requests write a generated embedding
\* to its record at most once, and they generate one only while none has
\* been written, that is again after a request that died between
\* generate_embedding and the write to the record.
C8_GeneratedUntilWritten ==
    /\ [](\A e \in Entities : match_generated[e].written <= 1)
    /\ [][\A e \in Entities :
             match_generated'[e].generated > match_generated[e].generated
                 => match_generated[e].written = 0]_vars
    /\ CachedEmbeddingReused

\* a match request died after generate_embedding for employee 1, the next
\* one generated the embedding again and wrote it, and a later one found
\* it cached
C8_RegeneratedThenReused ==
    /\ match_generated[<<"employee", 1>>].generated = 2
    /\ match_generated[<<"employee", 1>>].written = 1
    /\ match_generated[<<"employee", 1>>].reused
    /\ Returned("match_projects")
    /\ response.id = 1

---------------------------------------------------------------------------
(* Properties under callers that run at the same time *)

\* C3: when two add_match_history calls for one pair run at the same time
\* and both have finished, match_history has one row for the pair: no
\* interleaving of their SELECTs and writes leaves a duplicate row.
C3_UpsertsSerialized ==
    history_calls = <<>> =>
        \A i, j \in 1..Len(match_history) :
            (/\ match_history[i].employee_id = match_history[j].employee_id
             /\ match_history[i].project_id = match_history[j].project_id)
            => i = j

\* C4: after any add_*_embedding and update_*_embedding calls, whatever
\* their callers and their interleaving, each collection holds at most one
\* entry per id.
C4_OneEntryPerId ==
    \A kind \in Kinds :
        \A i, j \in 1..Len(CollectionOf(kind)) :
            CollectionOf(kind)[i].id = CollectionOf(kind)[j].id => i = j

\* an update_project_embedding has deleted the entry of an id and, before
\* its add, another call has put an entry with another document under that id
C4_UpsertedTwice ==
    \E i \in 1..Len(index_calls) :
        /\ index_calls[i].kind = "projects"
        /\ index_calls[i].replaces
        /\ \E k \in 1..Len(projects_collection) :
              /\ projects_collection[k].id = index_calls[i].id
              /\ projects_collection[k].document
                   # ProjectText(index_calls[i].request.title,
                                 index_calls[i].request.required_skills,
                                 index_calls[i].request.description)

\* C7: a find_similar_* query that returned fewer than top_k results, hence
\* every entry of the collection, returned an entry for every id whose entry
\* an update_*_embedding was replacing when the query ran.
C7_QuerySeesNoGap ==
    /\ (response.op = "find_similar_projects"
        /\ Len(response.matches) < response.top_k) =>
          \A id \in response.replacing :
             \E i \in 1..Len(response.matches) :
                response.matches[i].project_id = id
    /\ (response.op = "find_similar_employees"
        /\ Len(response.matches) < response.top_k) =>
          \A id \in response.replacing :
             \E i \in 1..Len(response.matches) :
                response.matches[i].employee_id = id

---------------------------------------------------------------------------
(* Properties of the candidates of a match request, under SpecOrphan *)

\* C11: a match request whose index candidates include one without a record
\* in the record store succeeds; the candidates the query returned that
\* have a record are all in the returned list, with their similarity
\* scores, and have their match_history row; a candidate without a record
\* is not in the list and has no match_history row.
C11_UnresolvedCandidateDropped ==
    /\ response.op \in MatchOps => response.status = 200
    /\ \A k \in 1..Len(match_history) :
          HasRow(projects, match_history[k].project_id)
    /\ (Returned("match_projects") /\ HasRow(employees, response.id)) =>
          \E similar_projects \in
                find_similar_projects(projects_collection,
                    employees[response.id].embedding_vector, response.top_k) :
             LET Resolved(c) == HasRow(projects, c.project_id)
                 resolved == SelectSeq(similar_projects, Resolved)
             IN  /\ Len(response.matches) = Len(resolved)
                 /\ \A i \in 1..Len(response.matches) :
                       HasRow(projects, response.matches[i].project_id)
                 /\ \A i \in 1..Len(resolved) :
                       /\ \E j \in 1..Len(response.matches) :
                             /\ response.matches[j].project_id
                                  = resolved[i].project_id
                             /\ response.matches[j].similarity_score
                                  = resolved[i].similarity_score
                       /\ \E k \in 1..Len(match_history) :
                             /\ match_history[k].employee_id = response.id
                             /\ match_history[k].project_id
                                  = resolved[i].project_id
                             /\ match_history[k].match_score
                                  = resolved[i].similarity_score
    /\ (Returned("match_employees") /\ HasRow(projects, response.id)) =>
          \A i \in 1..Len(response.matches) :
             HasRow(employees, response.matches[i].employee_id)

\* a match request with two candidates in the index, one of them without
\* its project record, returned the other one
C11_OneOfTwoDropped ==
    /\ Returned("match_projects")
    /\ response.top_k = 2
    /\ Len(projects_collection) = 2
    /\ Len(projects) = 1
    /\ Len(response.matches) = 1
    /\ response.matches[1].project_id = 1

---------------------------------------------------------------------------
(* Properties of find_similar_*, under SpecQuery *)

\* the collection a find_similar_* response was read from
Queried == IF response.op = "find_similar_projects"
           THEN projects_collection ELSE employees_collection

FindOps == {"find_similar_projects", "find_similar_employees"}

\* min(top_k, n) results, in non-increasing order of similarity_score
RankedPrefix ==
    /\ response.status = 200
    /\ Len(response.matches) = (IF response.top_k < Len(Queried)
                                THEN response.top_k ELSE Len(Queried))
    /\ \A i, j \in 1..Len(response.matches) :
          i < j => response.matches[i].similarity_score
                     >= response.matches[j].similarity_score

\* C12 as stated: a query of a collection of n entries with k >= 1 returns
\* min(k, n) results in non-increasing order of similarity, and returns the
\* empty list when the collection is empty or k exceeds n.
C12_EmptyWhenKExceeds ==
    response.op \in FindOps =>
        /\ RankedPrefix
        /\ (Len(Queried) = 0 \/ response.top_k > Len(Queried)) =>
              response.matches = <<>>

\* C12, amended: a query of a collection of n entries with k >= 1 returns
\* min(k, n) results in non-increasing order of similarity and never
\* raises: the empty list when the collection is empty, all n entries when k
\* exceeds n.
C12_MinOfKAndSize ==
    response.op \in FindOps =>
        /\ RankedPrefix
        /\ Len(Queried) = 0 => response.matches = <<>>
        /\ response.top_k > Len(Queried) =>
              \A i \in 1..Len(Queried) :
                 \E j \in 1..Len(response.matches) :
                    IF response.op = "find_similar_projects"
                    THEN response.matches[j].project_id = Queried[i].id
                    ELSE response.matches[j].employee_id = Queried[i].id

\* a query for more results than the two entries of the collection returned
\* both, the entry added last first
C12_AllReturnedRanked ==
    /\ response.op = "find_similar_projects"
    /\ Len(projects_collection) = 2
    /\ response.top_k > 2
    /\ Len(response.matches) = 2
    /\ response.matches[1].project_id = projects_collection[2].id
    /\ response.matches[1].similarity_score
         > response.matches[2].similarity_score

---------------------------------------------------------------------------
(* Properties of the functions that keep no state, under SpecCalls *)

ToSet(seq) == { seq[i] : i \in 1..Len(seq) }

\* C13: for every candidate and required skill list, duplicates and entries
\* that differ only in case included, the matched_skills and missing_skills
\* of find_skill_gaps together are, as sets, the required skills, and have
\* no skill in common.
C13_MatchedAndMissingPartition ==
    Returned("find_skill_gaps") =>
        /\ ToSet(response.result.matched_skills)
             \cup ToSet(response.result.missing_skills)
             = ToSet(response.args[2])
        /\ ToSet(response.result.matched_skills)
             \cap ToSet(response.result.missing_skills) = {}

\* required skills with a duplicate and a case variant, split into the two
\* lists
C13_DuplicatesSplit ==
    /\ Returned("find_skill_gaps")
    /\ response.args = << <<"go">>, <<"Go", "docker", "go">> >>
    /\ response.result.matched_skills = <<"Go", "go">>
    /\ response.result.missing_skills = <<"docker">>

\* C14 as stated: match_percentage is 100 whenever missing_skills is empty
\* and 0 whenever required_skills is empty.
C14_FullWheneverNothingMissing ==
    Returned("find_skill_gaps") =>
        /\ response.result.missing_skills = <<>> =>
              response.result.match_percentage = 10000
        /\ response.args[2] = <<>> =>
              response.result.match_percentage = 0

\* C14, amended: match_percentage is 100 whenever missing_skills is empty
\* and required_skills is not, and 0 whenever required_skills is empty.
C14_FullOrNothingRequired ==
    Returned("find_skill_gaps") =>
        /\ (response.result.missing_skills = <<>> /\ response.args[2] # <<>>) =>
              response.result.match_percentage = 10000
        /\ response.args[2] = <<>> =>
              /\ response.result.missing_skills = <<>>
              /\ response.result.match_percentage = 0

\* nothing is required of an employee with skills: nothing is missing and
\* the percentage is 0
C14_NothingRequired ==
    /\ Returned("find_skill_gaps")
    /\ response.args = << <<"go", "java">>, <<>> >>
    /\ response.result.missing_skills = <<>>
    /\ response.result.match_percentage = 0

\* a required skill is unsatisfied: no candidate skill, lower-cased, is a
\* substring of it or has it as a substring
Unsatisfied(employee_skills, required_skill) ==
    \A i \in 1..Len(employee_skills) :
        /\ ~IsSubstring(Lower(Chars(employee_skills[i])),
                        Lower(Chars(required_skill)))
        /\ ~IsSubstring(Lower(Chars(required_skill)),
                        Lower(Chars(employee_skills[i])))

\* C15: missing_skills is the required skills that are unsatisfied, in the
\* order in which they occur in required_skills.
C15_MissingIsUnsatisfiedInOrder ==
    Returned("find_skill_gaps") =>
        LET IsUnsatisfied(skill) == Unsatisfied(response.args[1], skill)
        IN  response.result.missing_skills
              = SelectSeq(response.args[2], IsUnsatisfied)

\* "java" satisfies "JavaScript" and neither "docker" nor "python", which
\* are missing in their order
C15_SubstringSatisfies ==
    /\ Returned("find_skill_gaps")
    /\ response.args = << <<"java">>, <<"docker", "JavaScript", "python">> >>
    /\ response.result.missing_skills = <<"docker", "python">>

\* C16: for required skills that are not empty match_percentage is
\* (len(required) - len(missing)) / len(required) * 100 rounded to two
\* decimals, within 0..100; {python, react} against [python, django, docker]
\* gives missing [django, docker], matched [python] and 33.33.
C16_PercentageOfSatisfied ==
    Returned("find_skill_gaps") =>
        /\ response.args[2] # <<>> =>
              LET required == Len(response.args[2])
                  missing == Len(response.result.missing_skills)
                  exact == (required - missing) * 1000000
                  percentage == response.result.match_percentage
              IN  /\ percentage \in 0..10000
                  /\ 2 * (percentage * required * 100 - exact) <= required * 100
                  /\ 2 * (exact - percentage * required * 100) <= required * 100
        /\ response.args = << <<"python", "react">>,
                              <<"python", "django", "docker">> >> =>
              response.result = [missing_skills |-> <<"django", "docker">>,
                                 matched_skills |-> <<"python">>,
                                 match_percentage |-> 3333]

\* the example has been computed
C16_Example ==
    /\ Returned("find_skill_gaps")
    /\ response.args = << <<"python", "react">>,
                          <<"python", "django", "docker">> >>
    /\ response.result.match_percentage = 3333

\* how often a skill occurs in a list
Occurrences(seq, skill) == Cardinality({ i \in 1..Len(seq) : seq[i] = skill })

\* the number of the first category, in the fixed order, with a keyword that
\* is a substring of the lower-cased skill; 0 when there is none
FirstCategory(skill) ==
    LET Matches(c) == \E k \in 1..Len(skill_categories[c].keywords) :
                         IsSubstring(Chars(skill_categories[c].keywords[k]),
                                     Lower(Chars(skill)))
        matching == { c \in 1..Len(skill_categories) : Matches(c) }
    IN  IF matching = {} THEN 0
        ELSE CHOOSE c \in matching : \A b \in matching : c <= b

RECURSIVE TotalLen(_, _)
\* the sizes of the buckets of a result, summed
TotalLen(result, buckets) ==
    IF buckets = {} THEN 0
    ELSE LET b == CHOOSE x \in buckets : TRUE
         IN  Len(result[b]) + TotalLen(result, buckets \ {b})

\* C17: categorize_skills puts every input skill in exactly one bucket,
\* that of the first category in the order programming, web_development,
\* data_science, cloud_devops, databases, mobile, ai_ml with a keyword that
\* is a substring of the lower-cased skill, or "other" when there is none;
\* the sizes of the buckets add up to the number of input skills.
C17_FirstCategoryWins ==
    Returned("categorize_skills") =>
        LET skills == response.args[1]
            result == response.result
            order == <<"programming", "web_development", "data_science",
                       "cloud_devops", "databases", "mobile", "ai_ml">>
            Expected(skill) == IF FirstCategory(skill) = 0 THEN "other"
                               ELSE order[FirstCategory(skill)]
        IN  /\ [c \in 1..Len(skill_categories) |-> skill_categories[c].category]
                 = order
            /\ DOMAIN result = ToSet(order) \cup {"other"}
            /\ TotalLen(result, DOMAIN result) = Len(skills)
            /\ \A skill \in ToSet(skills) :
                  \A bucket \in DOMAIN result :
                     Occurrences(result[bucket], skill)
                       = (IF bucket = Expected(skill)
                          THEN Occurrences(skills, skill) ELSE 0)

\* "Python" has keywords of programming and of data_science and is in
\* programming only; "docker" has the keyword "r" of data_science before
\* its own of cloud_devops; "excel" has none
C17_FirstOfSeveral ==
    /\ Returned("categorize_skills")
    /\ response.args[1] = <<"Python", "docker", "excel">>
    /\ response.result["programming"] = <<"Python">>
    /\ response.result["data_science"] = <<"docker">>
    /\ response.result["cloud_devops"] = <<>>
    /\ response.result["other"] = <<"excel">>

\* C18: for a similarity s and a skill match m between 0.00 and 100.00 of
\* two decimals, _calculate_overall_score(s, m) is 0.6*s + 0.4*m rounded to
\* two decimals (the hundredth nearest to it) and lies between 0.00 and
\* 100.00; it is 100.00 for (100.00, 100.00) and 0.00 for (0.00, 0.00).
C18_WeightedRoundedBounded ==
    Returned("calculate_overall_score") =>
        LET s == response.args[1]
            m == response.args[2]
            r == response.result
        IN  (s \in 0..10000 /\ m \in 0..10000) =>
               /\ r \in 0..10000
               /\ 10 * r - 5 <= 6 * s + 4 * m
               /\ 6 * s + 4 * m <= 10 * r + 5
               /\ (s = 10000 /\ m = 10000) => r = 10000
               /\ (s = 0 /\ m = 0) => r = 0

\* 0.6 * 33.33 + 0.4 * 50.00 = 39.998 is returned as 40.00
C18_RoundedUp ==
    /\ Returned("calculate_overall_score")
    /\ response.args = <<3333, 5000>>
    /\ response.result = 4000

\* the embeddings the record store and the index hold
StoredEmbeddings ==
    { employees[i].embedding_vector : i \in 1..Len(employees) }
    \cup { projects[i].embedding_vector : i \in 1..Len(projects) }
    \cup { employees_collection[i].embedding :
             i \in 1..Len(employees_collection) }
    \cup { projects_collection[i].embedding :
             i \in 1..Len(projects_collection) }

\* C19: generate_embedding returns a vector of exactly 384 components for
\* every text, the empty string included, and every embedding that the
\* record store or the index holds has exactly 384 components.
C19_EmbeddingDimension ==
    /\ Returned("generate_embedding") => Len(response.result) = 384
    /\ \A embedding \in StoredEmbeddings :
          embedding # NullEmbedding => Len(embedding) = 384

\* the embedding of the empty string: the 16 bytes of
\* d41d8cd98f00b204e9800998ecf8427e, then 368 zeros
C19_EmptyTextEmbedded ==
    /\ Returned("generate_embedding")
    /\ response.args = <<"">>
    /\ Len(response.result) = 384
    /\ SubSeq(response.result, 1, 16)
         = <<212, 29, 140, 217, 143, 0, 178, 4, 233, 128, 9, 152, 236, 248,
             66, 126>>
    /\ \A k \in 17..384 : response.result[k] = 0

\* C20: every component of every vector generate_embedding produces is in
\* [0,1): the scalar a pair of hash digits (a byte 0..255) is mapped to is
\* at least 0 and strictly less than 1.
C20_ComponentsBelowOne ==
    /\ Returned("generate_embedding") =>
          \A k \in 1..Len(response.result) :
             /\ 0 <= response.result[k]
             /\ response.result[k] < EmbeddingDivisor
    /\ Returned("hex_pair") =>
          /\ 0 <= response.result
          /\ response.result < EmbeddingDivisor

\* the number of missing skills that fuzzy-match a tag of the course
FuzzyMatches(skill_tags, missing_skills) ==
    Cardinality({ i \in 1..Len(missing_skills) :
        \E t \in 1..Len(skill_tags) :
            LET missing == Lower(Chars(missing_skills[i]))
                tag == Lower(Chars(skill_tags[t]))
            IN  IsSubstring(missing, tag) \/ IsSubstring(tag, missing) })

\* C22: recommend_courses returns at most 3 courses, each of the catalog and
\* with relevance_score >= 1, the number of missing skills that fuzzy-match
\* one of its tags, in non-increasing order of relevance_score, and no
\* course left out has a higher relevance_score than a returned one.
C22_TopThreeByRelevance ==
    Returned("recommend_courses") =>
        LET missing_skills == response.args[1]
            available_courses == response.args[2]
            result == response.result
            returned == { result[i].id : i \in 1..Len(result) }
        IN  /\ Len(result) <= 3
            /\ Cardinality(returned) = Len(result)
            /\ \A i \in 1..Len(result) :
                  /\ result[i].id \in 1..Len(available_courses)
                  /\ result[i].skill_tags
                       = available_courses[result[i].id].skill_tags
                  /\ result[i].relevance_score
                       = FuzzyMatches(result[i].skill_tags, missing_skills)
                  /\ result[i].relevance_score >= 1
            /\ \A i \in 1..(Len(result) - 1) :
                  result[i].relevance_score >= result[i + 1].relevance_score
            /\ \A c \in 1..Len(available_courses) :
                  c \notin returned =>
                     \A i \in 1..Len(result) :
                        FuzzyMatches(available_courses[c].skill_tags,
                                     missing_skills)
                          <= result[i].relevance_score

\* four courses for the missing skills docker and Python: the course of
\* relevance 2 comes first although it is third in the catalog, the two
\* docker courses follow and the react course is left out
C22_FourCoursesThreeReturned ==
    /\ Returned("recommend_courses")
    /\ response.args[1] = <<"docker", "Python">>
    /\ [i \in 1..Len(response.args[2]) |-> response.args[2][i].skill_tags]
         = <<<<"docker", "kubernetes">>, <<"react">>, <<"python", "docker">>,
             <<"docker", "kubernetes">>>>
    /\ [i \in 1..Len(response.result) |-> response.result[i].id] = <<3, 1, 4>>
    /\ [i \in 1..Len(response.result) |-> response.result[i].relevance_score]
         = <<2, 1, 1>>

\* C23: recommend_courses never divides by zero: with no missing skill it
\* returns the empty list whatever the catalog, and where it computes a
\* relevance_percentage the divisor len(missing_skills) is at least 1 and
\* the percentage is in (0,100].
C23_NoDivisionByZero ==
    Returned("recommend_courses") =>
        LET missing_skills == response.args[1]
            result == response.result
        IN  /\ missing_skills = <<>> => result = <<>>
            /\ \A i \in 1..Len(result) :
                  /\ Len(missing_skills) >= 1
                  /\ result[i].relevance_percentage > 0
                  /\ result[i].relevance_percentage <= 10000
                  /\ 2 * (result[i].relevance_percentage * Len(missing_skills)
                          - result[i].relevance_score * 10000)
                       \in (0 - Len(missing_skills))..Len(missing_skills)

\* no missing skill and a catalog of four courses: nothing is recommended
C23_NothingMissing ==
    /\ Returned("recommend_courses")
    /\ response.args[1] = <<>>
    /\ Len(response.args[2]) = 4
    /\ response.result = <<>>

\* the match percentage of a project's required skills against the skills
MatchPercentage(current_skills, required_skills) ==
    LET satisfied == { i \in 1..Len(required_skills) :
                         ~Unsatisfied(current_skills, required_skills[i]) }
    IN  IF required_skills = <<>> THEN 0
        ELSE RoundDiv(Cardinality(satisfied) * 10000, Len(required_skills))

\* C25: _find_next_level_projects returns at most 3 projects, each with a
\* skill-match percentage in [40,70] against the employee's skills, in
\* non-decreasing order of percentage, and every project left out is
\* outside [40,70] or has a percentage >= that of every returned project.
C25_ThreeEasiestGrowthProjects ==
    Returned("find_next_level_projects") =>
        LET current_skills == response.args[1]
            all_projects == response.args[2]
            result == response.result
            returned == { result[i].project_id : i \in 1..Len(result) }
            Percentage(id) == MatchPercentage(current_skills,
                                              all_projects[id].required_skills)
        IN  /\ Len(result) <= 3
            /\ Cardinality(returned) = Len(result)
            /\ \A i \in 1..Len(result) :
                  /\ result[i].project_id \in 1..Len(all_projects)
                  /\ result[i].skill_match_percentage
                       = Percentage(result[i].project_id)
                  /\ result[i].skill_match_percentage \in 4000..7000
            /\ \A i \in 1..(Len(result) - 1) :
                  result[i].skill_match_percentage
                    <= result[i + 1].skill_match_percentage
            /\ \A id \in 1..Len(all_projects) :
                  id \notin returned =>
                     \/ Percentage(id) \notin 4000..7000
                     \/ \A i \in 1..Len(result) :
                           Percentage(id) >= result[i].skill_match_percentage

\* four projects in the range for the skills python and react, stored in
\* the order 66.67, 50, 40, 50: returned are 40, 50, 50 and the project of
\* 66.67, the first of the table, is left out
C25_FourInRangeThreeReturned ==
    /\ Returned("find_next_level_projects")
    /\ response.args[1] = <<"python", "react">>
    /\ Len(response.args[2]) = 4
    /\ [i \in 1..Len(response.result) |-> response.result[i].project_id]
         = <<3, 2, 4>>
    /\ [i \in 1..Len(response.result) |->
            response.result[i].skill_match_percentage]
         = <<4000, 5000, 5000>>

\* the category of the highest count of a categorization, the first of
\* them in the order programming, web_development, data_science,
\* cloud_devops, databases, mobile, ai_ml, other
HighestCategory(categorized) ==
    LET order == <<"programming", "web_development", "data_science",
                   "cloud_devops", "databases", "mobile", "ai_ml", "other">>
        highest == { c \in 1..Len(order) :
                       \A b \in 1..Len(order) :
                          Len(categorized[order[b]]) <= Len(categorized[order[c]]) }
    IN  order[CHOOSE c \in highest : \A b \in highest : c <= b]

\* C26: the career trajectories of _suggest_career_trajectory are a
\* non-empty list that depends only on which category has the highest
\* count (ties go to the first category in the fixed order): any other
\* categorization with the same highest category gets the same list.
C26_TrajectoryOfTopCategory ==
    Returned("suggest_career_trajectory") =>
        /\ response.result # <<>>
        /\ \A other \in CareerCalls :
              HighestCategory(other.args[1]) = HighestCategory(response.args[1])
                 => suggest_career_trajectory(other.args[1]) = response.result

====
